---- MODULE Spec2Model ----
(***************************************************************************)
(* Capture rig: the embedded axis controller (microcontroller_code.ino),   *)
(* the host sequencer (control.pyw) and the stage revolution arithmetic.   *)
(*                                                                         *)
(* Spec      the controller's loop() with a free environment (serial       *)
(*           lines, emergency-stop input, limit-switch inputs).            *)
(* SpecMove  the controller's loop() after one Move line, in a quiet       *)
(*           environment, with the loop cycling.                           *)
(* SpecKin   the stage part of positions_to_degrees.                       *)
(* SpecSweep the host's spin-set sequencer, its serial polling and the     *)
(*           controller on the other end of the link.                      *)
(* SpecManual   the host's manual controls on a free serial link.          *)
(* SpecDispatch the controller's command dispatch on well-formed and       *)
(*           malformed lines.                                              *)
(* SpecPoll  the host's decoding of status lines.                          *)
(* SpecStop  one command that starts an axis, then one stop, with the      *)
(*           loop cycling.                                                 *)
(* SpecWide  the host's jog buttons on step positions of any size.         *)
(* SpecConvert  steps_to_degrees followed by degrees_to_steps.             *)
(* SpecRates the controller's rate commands and its two requests.          *)
(* SpecDrain the controller's loop() on a receive buffer.                  *)
(* SpecEstop the estop input, the estop branch and the host's poll, timed. *)
(* SpecMirror   SpecSweep with the serial timer and the loop kept going.   *)
(* SpecHeld  SpecDrain with lines that arrive during an emergency stop.    *)
(* SpecEstopSweep  SpecEstop with the START button and the sweeps.         *)
(* SpecBytes the controller's read loop byte by byte.                      *)
(* SpecDecode   a Move line from move_to_step_position to the controller.  *)
(***************************************************************************)
EXTENDS Integers, Sequences, FiniteSets, TLC

(***************************************************************************)
(* Bounds of the model.                                                    *)
(***************************************************************************)
\* steps an axis may travel away from a position origin or a backoff point
MaxTravel == 2
\* command lines other than position requests that arrive in one behaviour
MaxCmds == 2
\* steps AccelStepper::stop() may need to decelerate (speed^2 / 2a + 1)
MaxStopSteps == 2

(***************************************************************************)
(* Program constants.                                                      *)
(***************************************************************************)
stageMicrosteps == 16
trackMicrosteps == 4
nodMicrosteps == 64
HomeJog == 1000000
StageBackoff == 100

Axes == {0, 1, 2}

Abs(x) == IF x < 0 THEN -x ELSE x
Sgn(x) == IF x > 0 THEN 1 ELSE IF x < 0 THEN -1 ELSE 0

trackTopLimitSwitch ==
    [id |-> "TTLS", backoff |-> 50 * trackMicrosteps, direction |-> 1, axis |-> 1]
trackBottomLimitSwitch ==
    [id |-> "TBLS", backoff |-> 50 * trackMicrosteps, direction |-> -1, axis |-> 1]
nodForwardLimitSwitch ==
    [id |-> "NFLS", backoff |-> 10 * nodMicrosteps, direction |-> 1, axis |-> 2]
nodBackLimitSwitch ==
    [id |-> "NBLS", backoff |-> 10 * nodMicrosteps, direction |-> -1, axis |-> 2]

LimitSwitches ==
    {trackTopLimitSwitch, trackBottomLimitSwitch, nodForwardLimitSwitch, nodBackLimitSwitch}

VARIABLES
    motor,                      \* stageMotor, trackMotor, nodMotor: [currentPosition, targetPosition]
    homing,                     \* int homing[3]
    needs_homing,               \* bool needs_homing[3] (the global)
    lastNonzeroTrackMotorSpeed, \* sign of the float
    trackMotorSpeed,            \* loop()'s local, sign of the float
    estopPin,                   \* level of the emergency-stop input
    lpc,                        \* position of loop()
    out,                        \* frames printed by the latest controller step
    hit,                        \* id of the switch the latest step found triggered, or "none"
    zeroed,                     \* axes whose position the latest step reset with setCurrentPosition(0)
    sent,                       \* command lines executed so far, position requests apart
    maxSpeed,                   \* per motor, the speed limit setMaxSpeed stored
    acceleration,               \* per motor, the acceleration setAcceleration stored
    ran                         \* signed steps the latest step made inside runToPosition()

ctlVars == <<motor, homing, needs_homing, lastNonzeroTrackMotorSpeed, trackMotorSpeed,
             estopPin, lpc, out, hit, zeroed, sent, maxSpeed, acceleration, ran>>

VARIABLES
    motor_data,                 \* the host's mirror: per axis is_running and steps, or None
    needs_homing_flag,
    host_homing,                \* self.homing of the host
    estop_pressed,
    cancel_sequence_flag,
    sequence_active_flag,
    calibrate_button,           \* the START button is enabled
    calibrate_cancel_button,    \* the cancel button is visible
    manual_controls,            \* the manual controls are enabled
    stack,                      \* sweeps suspended in wait_for_all_motors_stopped, innermost last
    started,                    \* sweeps started so far
    clicks,                     \* clicks on cancel and STOP so far
    waypoints,                  \* per sweep, the waypoints it called move_to_position for
    captures,                   \* per sweep, the waypoints it called capture_image for
    ended,                      \* sweeps that reached end_sequence at the end of capture_spin_set
    cancelled                   \* sweeps that were in progress when cancel_sequence ran

hostVars == <<motor_data, needs_homing_flag, host_homing, estop_pressed, cancel_sequence_flag,
              sequence_active_flag, calibrate_button, calibrate_cancel_button, manual_controls,
              stack, started, clicks, waypoints, captures, ended, cancelled>>

VARIABLES
    rx,                         \* lines written by the host, not yet read by the controller
    tx                          \* frames printed by the controller, not yet read by the host

linkVars == <<rx, tx>>

VARIABLES
    request,                    \* <<theta>> of the latest positions_to_degrees call, or <<>>
    stage_motor_degrees         \* <<its stage result>>, or <<>>

kinVars == <<request, stage_motor_degrees>>

VARIABLES
    call,                       \* the latest manual-control handler: what it was asked, what it wrote
    reported,                   \* the lines the latest poll_serial printed as invalid
    converted                   \* a step count taken to degrees and back

manVars == <<call, reported, converted>>

VARIABLES
    pollDue,                    \* time left until serial_timer fires
    delayLeft,                  \* time left of the delay(50) of the estop branch
    wasReleased,                \* the estop input was released since the latest 'E' line
    releaseAge,                 \* time the latest release of the estop input has lasted
    unseen                      \* estop_pressed stayed true since that release began

timeVars == <<pollDue, delayLeft, wasReleased, releaseAge, unseen>>

VARIABLES
    byteCounter,                \* the index the next received byte is stored at
    incoming,                   \* the bytes stored in incomingBytes[] since it was cleared
    overrun                     \* a byte was stored outside incomingBytes[]

byteVars == <<byteCounter, incoming, overrun>>

vars == <<ctlVars, hostVars, linkVars, kinVars, manVars, timeVars, byteVars>>

(***************************************************************************)
(* AccelStepper, as the sketch uses it.  The speed is kept by its sign:    *)
(* a motor that has steps to go has the speed of its direction, a motor at *)
(* its target has speed zero.                                              *)
(***************************************************************************)
speed(m) == Sgn(m.targetPosition - m.currentPosition)

isRunning(m) == IF speed(m) = 0 /\ m.targetPosition = m.currentPosition THEN 0 ELSE 1

moveTo(m, absolute) == [m EXCEPT !.targetPosition = absolute]

move(m, relative) == moveTo(m, m.currentPosition + relative)

\* variant that leaves the step count alone
setCurrentPosition_KeepsCount(m, position) == [m EXCEPT !.targetPosition = position]

setCurrentPosition(m, position) ==
    [m EXCEPT !.currentPosition = position, !.targetPosition = position]

\* the signed number of steps runToPosition() makes from m
StepsToGo(m) == m.targetPosition - m.currentPosition

\* variant that returns at once
runToPosition_Returns(m) == m

runToPosition(m) == [m EXCEPT !.currentPosition = m.targetPosition]

\* variant that leaves the target alone
stop_Ignored(m, stepsToStop) == m

\* stop(): a moving motor is retargeted stepsToStop steps ahead
stop(m, stepsToStop) == IF speed(m) # 0 THEN move(m, speed(m) * stepsToStop) ELSE m

\* setMaxSpeed(): the magnitude is stored
setMaxSpeed(old, value) == Abs(value)

\* setAcceleration(): zero is ignored, otherwise the magnitude is stored
setAcceleration(old, value) == IF value = 0 THEN old ELSE Abs(value)

\* positions an axis can be stepped to within the travel bound
Anchors(a) ==
    CASE a = 0 -> {0}
      [] a = 1 -> {0, trackTopLimitSwitch.backoff, -trackTopLimitSwitch.backoff}
      [] a = 2 -> {0, nodForwardLimitSwitch.backoff, -nodForwardLimitSwitch.backoff}

InTravel(a, p) == \E c \in Anchors(a) : Abs(p - c) <= MaxTravel

\* variant of run() that never steps
run_NoStep(m, due) == m

\* run(): one step toward the target when a step is due
run(m, due) ==
    IF due /\ m.targetPosition # m.currentPosition
    THEN [m EXCEPT !.currentPosition = m.currentPosition + speed(m)]
    ELSE m

(***************************************************************************)
(* Serial command lines: sequences of characters without the newline.      *)
(***************************************************************************)
Digits == <<"0", "1", "2", "3", "4", "5", "6", "7", "8", "9">>

Ord(c) ==
    CASE c = "\n" -> 10
      [] c = "+" -> 43
      [] c = "-" -> 45
      [] c \in {Digits[i] : i \in 1..10} -> 47 + (CHOOSE i \in 1..10 : Digits[i] = c)
      [] c = "/" -> 47
      [] c = "A" -> 65
      [] c = "E" -> 69
      [] c = "F" -> 70
      [] c = "H" -> 72
      [] c = "J" -> 74
      [] c = "M" -> 77
      [] c = "P" -> 80
      [] c = "R" -> 82
      [] c = "S" -> 83
      [] c = "X" -> 88
      [] c = "a" -> 97
      [] OTHER -> 0

\* incomingBytes[i] (0-based) after the line and its newline were stored
incomingBytes(line, i) ==
    IF i < Len(line) THEN line[i + 1]
    ELSE IF i = Len(line) THEN "\n" ELSE "NUL"

\* int axis = incomingBytes[1] - '0'
AxisOf(line) == Ord(incomingBytes(line, 1)) - Ord("0")

\* long is 32 bits wide on the boards the sketch runs on: a long is kept
\* here as two halves of 16 bits, the low one in 0..Word - 1
Word == 2 ^ 16

LongMax == (2 ^ 30 - 1) * 2 + 1
LongMin == 0 - LongMax - 1

HiWord(v) == v \div Word
LoWord(v) == v % Word

\* the number h * Word + l fits a long
FitsLong(h) == h >= 0 - Word \div 2 /\ h < Word \div 2

\* the long that h * Word + l leaves in 32 bits
Long(h, l) == (((h + Word \div 2) % Word) - Word \div 2) * Word + l

\* value * 10 + incomingBytes[i] - '0' as the 32-bit arithmetic leaves it
MulAdd(value, byte) ==
    LET t == LoWord(value) * 10 + byte - Ord("0")
    IN  Long(HiWord(value) * 10 + t \div Word, t % Word)

\* value * 10, value * 10 + incomingBytes[i] or the difference to '0' does
\* not fit a long
MulAddOverflows(value, byte) ==
    LET hi(t) == HiWord(value) * 10 + t \div Word
    IN  \/ ~FitsLong(hi(LoWord(value) * 10))
        \/ ~FitsLong(hi(LoWord(value) * 10 + byte))
        \/ ~FitsLong(hi(LoWord(value) * 10 + byte - Ord("0")))

RECURSIVE Accumulate(_, _, _)
Accumulate(line, i, value) ==
    IF i >= Len(line) THEN value
    ELSE Accumulate(line, i + 1, MulAdd(value, Ord(incomingBytes(line, i))))

RECURSIVE AccumulateOverflows(_, _, _)
AccumulateOverflows(line, i, value) ==
    IF i >= Len(line) THEN FALSE
    ELSE \/ MulAddOverflows(value, Ord(incomingBytes(line, i)))
         \/ AccumulateOverflows(line, i + 1, MulAdd(value, Ord(incomingBytes(line, i))))

\* the value at the end of the command; byteCounter - 1 = Len(line)
ValueOf(line) ==
    LET value == Accumulate(line, 3, 0)
    IN  IF incomingBytes(line, 2) = "-"
        THEN IF value = LongMin THEN LongMin ELSE -1 * value
        ELSE value

\* the arithmetic of lines 171-177 leaves the range of long on this line
ValueOverflows(line) ==
    \/ AccumulateOverflows(line, 3, 0)
    \/ incomingBytes(line, 2) = "-" /\ Accumulate(line, 3, 0) = LongMin

\* signed overflow is not defined: the value is then the one the 32-bit
\* multiply and add instructions leave, or one cut off at the largest long
ValueOutcomes(line) ==
    IF ValueOverflows(line) THEN {ValueOf(line), LongMax} ELSE {ValueOf(line)}

\* variant that reports the stage only
PositionFrame_StageOnly(mt) == <<"P", isRunning(mt[0]), mt[0].currentPosition>>

PositionFrame(mt) ==
    <<"P", isRunning(mt[0]), mt[0].currentPosition,
           isRunning(mt[1]), mt[1].currentPosition,
           isRunning(mt[2]), mt[2].currentPosition>>

\* variant that reports the track's rates for every motor
RatesFrame_TrackOnly(ms, ac) == <<"R", ms[1], ac[1], ms[1], ac[1], ms[1], ac[1]>>

\* the frame case 'R' prints
RatesFrame(ms, ac) == <<"R", ms[0], ac[0], ms[1], ac[1], ms[2], ac[2]>>

\* str(abs(steps)) of the host's move_to_step_position
RECURSIVE Decimal(_)
Decimal(n) == IF n < 10 THEN <<Digits[n + 1]>> ELSE Append(Decimal(n \div 10), Digits[(n % 10) + 1])

\* "M" + str(axis) + sign + str(abs(steps))
MoveLine(axis, steps) ==
    <<"M", Digits[axis + 1], IF steps >= 0 THEN "+" ELSE "-">> \o Decimal(Abs(steps))

\* lines that arrive on the serial link under Spec
Lines ==
    {<<"H", Digits[a + 1]>> : a \in Axes}
    \cup {MoveLine(1, trackTopLimitSwitch.backoff + 1)}
    \cup {<<"J", "2", "-", "1">>, <<"F", "1", "-", "1">>, <<"E", "1">>}
    \cup {<<"P">>}

InitMotor == [currentPosition |-> 0, targetPosition |-> 0]

InitCtl ==
    /\ motor = [a \in Axes |-> InitMotor]
    /\ homing = [a \in Axes |-> 0]
    /\ needs_homing = [a \in Axes |-> TRUE]
    /\ lastNonzeroTrackMotorSpeed = 0
    /\ trackMotorSpeed = 0
    /\ estopPin = FALSE
    /\ lpc = "top"
    /\ out = <<>>
    /\ hit = "none"
    /\ zeroed = {}
    /\ sent = 0
    /\ ran = 0
    /\ maxSpeed = (0 :> 250 * stageMicrosteps @@ 1 :> 1000 * trackMicrosteps
                      @@ 2 :> (125 * nodMicrosteps) \div 2)
    /\ acceleration = (0 :> 200 * stageMicrosteps @@ 1 :> 500 * trackMicrosteps
                          @@ 2 :> 50 * nodMicrosteps)

(***************************************************************************)
(* Environment of the controller.                                          *)
(***************************************************************************)
PressEstop ==
    /\ ~estopPin
    /\ estopPin' = TRUE
    /\ UNCHANGED <<motor, homing, needs_homing, lastNonzeroTrackMotorSpeed, trackMotorSpeed,
                   lpc, out, hit, zeroed, sent, maxSpeed, acceleration, ran>>

ReleaseEstop ==
    /\ estopPin
    /\ estopPin' = FALSE
    /\ UNCHANGED <<motor, homing, needs_homing, lastNonzeroTrackMotorSpeed, trackMotorSpeed,
                   lpc, out, hit, zeroed, sent, maxSpeed, acceleration, ran>>

(***************************************************************************)
(* loop(), one action per stage of a cycle.                                *)
(***************************************************************************)
\* the emergency-stop branch: the array it declares is a new local one
LoopEstop ==
    /\ lpc = "top"
    /\ estopPin
    /\ out' = <<<<"E">>>>
    /\ motor' = [a \in Axes |-> setCurrentPosition(motor[a], 0)]
    /\ zeroed' = Axes
    /\ hit' = "none"
    /\ ran' = 0
    /\ UNCHANGED <<homing, needs_homing, lastNonzeroTrackMotorSpeed, trackMotorSpeed,
                   estopPin, lpc, sent, maxSpeed, acceleration>>

\* the cases of the switch that use the motor pointer
MotorKinds == {"M", "J", "S", "A", "H", "F", "E"}

\* motor is still NULL after the switch on axis and the command uses it
NullMotor(line) == incomingBytes(line, 0) \in MotorKinds /\ AxisOf(line) \notin Axes

\* a call through the NULL motor pointer (and, for H and E, a write to
\* homing[axis] outside the array): the outcomes are not defined; those of
\* the model leave the state alone or overwrite a target, the homing flags
\* or the needs-homing flags
UndefinedCall ==
    /\ motor' \in {motor, [motor EXCEPT ![0].targetPosition = 1]}
    /\ homing' \in {homing, [a \in Axes |-> 1]}
    /\ out' = <<>>
    /\ UNCHANGED <<maxSpeed, acceleration>>

\* variant with the guard compiled in
NeedsHomingGuard_Enabled(line) ==
    /\ incomingBytes(line, 0) \in {"M", "J"}
    /\ AxisOf(line) \in Axes
    /\ needs_homing[AxisOf(line)]

\* the needs-homing guard of Move and Jog: it is commented out
NeedsHomingGuard(line) == FALSE

\* the switch on incomingBytes[0] for one complete line
Dispatch(line, value) ==
    LET kind == incomingBytes(line, 0)
        axis == AxisOf(line)
    IN  IF NeedsHomingGuard(line)
        THEN /\ out' = <<<<"N">>>>
             /\ UNCHANGED <<motor, homing, maxSpeed, acceleration>>
        ELSE
        IF NullMotor(line) THEN UndefinedCall ELSE
        CASE kind = "M" ->
               /\ motor' = [motor EXCEPT ![axis] = moveTo(motor[axis], value)]
               /\ out' = <<>>
               /\ UNCHANGED <<homing, maxSpeed, acceleration>>
          [] kind = "J" ->
               /\ motor' = [motor EXCEPT ![axis] = move(motor[axis], value)]
               /\ out' = <<>>
               /\ UNCHANGED <<homing, maxSpeed, acceleration>>
          [] kind = "H" ->
               /\ homing' = [homing EXCEPT ![axis] = 1]
               /\ motor' = [motor EXCEPT ![axis] = move(motor[axis], -HomeJog)]
               /\ out' = <<>>
               /\ UNCHANGED <<maxSpeed, acceleration>>
          [] kind = "F" ->
               /\ motor' = [motor EXCEPT ![axis] = runToPosition(move(motor[axis], value))]
               /\ out' = <<>>
               /\ UNCHANGED <<homing, maxSpeed, acceleration>>
          [] kind = "E" ->
               /\ \E stepsToStop \in 1..MaxStopSteps :
                     motor' = [motor EXCEPT ![axis] = stop(motor[axis], stepsToStop)]
               /\ homing' = [homing EXCEPT ![axis] = 0]
               /\ out' = <<PositionFrame(motor')>>
               /\ UNCHANGED <<maxSpeed, acceleration>>
          [] kind = "P" ->
               /\ out' = <<PositionFrame(motor)>>
               /\ UNCHANGED <<motor, homing, maxSpeed, acceleration>>
          [] kind = "R" ->
               /\ out' = <<RatesFrame(maxSpeed, acceleration)>>
               /\ UNCHANGED <<motor, homing, maxSpeed, acceleration>>
          [] kind = "S" ->
               /\ maxSpeed' = [maxSpeed EXCEPT ![axis] = setMaxSpeed(maxSpeed[axis], value)]
               /\ out' = <<>>
               /\ UNCHANGED <<motor, homing, acceleration>>
          [] kind = "A" ->
               /\ acceleration' =
                     [acceleration EXCEPT ![axis] = setAcceleration(acceleration[axis], value)]
               /\ out' = <<>>
               /\ UNCHANGED <<motor, homing, maxSpeed>>
          [] OTHER ->
               /\ out' = <<>>
               /\ UNCHANGED <<motor, homing, maxSpeed, acceleration>>

\* one pass of the while loop that ends with a newline: a complete line has
\* arrived on the serial link and is executed
LoopCommand(line) ==
    \E value \in ValueOutcomes(line) :
        /\ \/ lpc = "top" /\ ~estopPin
           \/ lpc = "cmds"
        /\ sent' = IF line = <<"P">> THEN sent ELSE sent + 1
        /\ Dispatch(line, value)
        /\ lpc' = "cmds"
        /\ hit' = "none"
        /\ zeroed' = {}
        /\ ran' = IF incomingBytes(line, 0) = "F" /\ ~NullMotor(line)
                  THEN StepsToGo(move(motor[AxisOf(line)], value))
                  ELSE 0
        /\ IF NullMotor(line) /\ ~NeedsHomingGuard(line)
           THEN needs_homing' \in {needs_homing, [a \in Axes |-> FALSE]}
           ELSE UNCHANGED needs_homing
        /\ UNCHANGED <<lastNonzeroTrackMotorSpeed, trackMotorSpeed, estopPin>>

\* stageMotor.run(); trackMotor.run(); nodMotor.run(); trackMotorSpeed = trackMotor.speed()
\* due[a]: the step interval of motor a has elapsed
LoopRunDue(due) ==
    /\ \/ lpc = "top" /\ ~estopPin
       \/ lpc = "cmds"
    /\ \A a \in Axes : InTravel(a, run(motor[a], due[a]).currentPosition)
                       \/ run(motor[a], due[a]) = motor[a]
    /\ motor' = [a \in Axes |-> run(motor[a], due[a])]
    /\ trackMotorSpeed' = speed(motor'[1])
    /\ lpc' = "TTLS"
    /\ out' = <<>>
    /\ hit' = "none"
    /\ zeroed' = {}
    /\ ran' = 0
    /\ UNCHANGED <<homing, needs_homing, lastNonzeroTrackMotorSpeed, estopPin, sent,
                   maxSpeed, acceleration>>

LoopRun == \E due \in [Axes -> BOOLEAN] : LoopRunDue(due)

NextSwitch(id) ==
    CASE id = "TTLS" -> "TBLS"
      [] id = "TBLS" -> "NFLS"
      [] id = "NFLS" -> "NBLS"
      [] id = "NBLS" -> "stage"

\* variant that only knows the top switch
ReverseWound_TopOnly(ls) == ls.id = "TTLS" /\ lastNonzeroTrackMotorSpeed < 0

ReverseWound(ls) ==
    \/ ls.id = "TTLS" /\ lastNonzeroTrackMotorSpeed < 0
    \/ ls.id = "TBLS" /\ lastNonzeroTrackMotorSpeed > 0

\* variants of the homing test with a slip in it
HomingCompletes_PositiveSide(ls) == homing[ls.axis] = 1 /\ ls.direction = 1

HomingCompletes_NotHoming(ls) == ls.direction = -1

\* homing[ls.axis] == 1 && ls.direction == -1
HomingCompletes(ls) == homing[ls.axis] = 1 /\ ls.direction = -1

checkAndHandleLimitSwitch(ls, triggered) ==
    /\ lpc = ls.id
    /\ lpc' = NextSwitch(ls.id)
    /\ IF ~triggered
       THEN /\ out' = <<>>
            /\ hit' = "none"
            /\ zeroed' = {}
            /\ ran' = 0
            /\ UNCHANGED <<motor, homing, needs_homing>>
       ELSE LET hit_position == motor[ls.axis].currentPosition
                m0 == setCurrentPosition(motor[ls.axis], 0)
            IN  /\ hit' = ls.id
                /\ zeroed' = {ls.axis}
                /\ ran' = IF ReverseWound(ls)
                          THEN StepsToGo(move(m0, ls.direction * ls.backoff))
                          ELSE StepsToGo(move(m0, -1 * ls.direction * ls.backoff))
                /\ IF ReverseWound(ls)
                   THEN /\ out' = <<<<"W", ls.id>>>>
                        /\ homing' = [homing EXCEPT ![1] = 0]
                        /\ needs_homing' = [needs_homing EXCEPT ![1] = TRUE]
                        /\ motor' = [motor EXCEPT ![ls.axis] =
                                        runToPosition(move(m0, ls.direction * ls.backoff))]
                   ELSE /\ motor' = [motor EXCEPT ![ls.axis] =
                                        runToPosition(move(m0, -1 * ls.direction * ls.backoff))]
                        /\ IF HomingCompletes(ls)
                           THEN /\ homing' = [homing EXCEPT ![ls.axis] = 0]
                                /\ needs_homing' = [needs_homing EXCEPT ![ls.axis] = FALSE]
                                /\ out' = <<<<"H", ls.axis>>>>
                           ELSE /\ needs_homing' = [needs_homing EXCEPT ![ls.axis] = TRUE]
                                /\ out' = <<<<"L", ls.id, hit_position>>>>
                                /\ UNCHANGED homing
    /\ UNCHANGED <<lastNonzeroTrackMotorSpeed, trackMotorSpeed, estopPin, sent,
                   maxSpeed, acceleration>>

\* the stage switch and the update that ends the cycle
LoopStage(triggered) ==
    /\ lpc = "stage"
    /\ lpc' = "top"
    /\ IF triggered /\ homing[0] = 1
       THEN /\ motor' = [motor EXCEPT ![0] =
                            setCurrentPosition(runToPosition(move(motor[0], StageBackoff)), 0)]
            /\ out' = <<<<"L", "SOLS">>, <<"H", 0>>>>
            /\ homing' = [homing EXCEPT ![0] = 0]
            /\ needs_homing' = [needs_homing EXCEPT ![0] = FALSE]
            /\ zeroed' = {0}
            /\ ran' = StepsToGo(move(motor[0], StageBackoff))
       ELSE /\ out' = <<>>
            /\ zeroed' = {}
            /\ ran' = 0
            /\ UNCHANGED <<motor, homing, needs_homing>>
    /\ hit' = IF triggered THEN "SOLS" ELSE "none"
    /\ lastNonzeroTrackMotorSpeed' =
          IF trackMotorSpeed # 0 THEN trackMotorSpeed ELSE lastNonzeroTrackMotorSpeed
    /\ UNCHANGED <<trackMotorSpeed, estopPin, sent, maxSpeed, acceleration>>

(***************************************************************************)
(* Properties of the controller.                                           *)
(***************************************************************************)
\* a step of the controller, as opposed to one of its environment
CtlStep == estopPin' = estopPin

\* the step is the emergency-stop branch of loop()
EstopStep == CtlStep /\ lpc = "top" /\ estopPin

SwitchIds(a) ==
    CASE a = 0 -> {"SOLS"}
      [] a = 1 -> {"TTLS", "TBLS"}
      [] a = 2 -> {"NFLS", "NBLS"}

Backoff(a) ==
    CASE a = 0 -> 0
      [] a = 1 -> trackTopLimitSwitch.backoff
      [] a = 2 -> nodForwardLimitSwitch.backoff

\* number of frames <<"H", a>> in a sequence of frames
HomingCompleteCount(frames, a) == Cardinality({i \in DOMAIN frames : frames[i] = <<"H", a>>})

\* C1: a loop cycle with the emergency-stop input asserted leaves the step
\* position of all three axes at zero and the needs-homing flag of all three
\* axes true.
C1_EstopZeroesAndFlags ==
    out = <<<<"E">>>> =>
        \A a \in Axes : motor[a].currentPosition = 0 /\ needs_homing[a]

\* the switch that completes homing of an axis: its negative-direction
\* switch, for the stage its single switch
HomingSwitch(a) ==
    CASE a = 0 -> "SOLS"
      [] a = 1 -> "TBLS"
      [] a = 2 -> "NBLS"

HomingHitCompletes(a) ==
    /\ homing'[a] = 0
    /\ ~needs_homing'[a]
    /\ HomingCompleteCount(out', a) = 1

\* the handler of the homing switch of axis a runs and finds it triggered
\* while the axis is homing and needs homing
HomingHit(a) ==
    /\ CtlStep
    /\ lpc = (IF a = 0 THEN "stage" ELSE HomingSwitch(a))
    /\ hit' = HomingSwitch(a)
    /\ homing[a] = 1
    /\ needs_homing[a]

\* C2 as stated: a trigger of the negative-direction switch of an axis that
\* is homing and needs homing always completes the homing with one 'H X'.
C2_HomingHitAlwaysCompletes ==
    [][\A a \in Axes : HomingHit(a) => HomingHitCompletes(a)]_vars

\* C2: a trigger of the negative-direction switch of an axis that is homing
\* and needs homing, other than a reverse-wind hit of the track's bottom
\* switch (last non-zero track speed positive), leaves the axis not homing
\* and not needing homing and emits exactly one 'H X'.
C2_HomingHitCompletes ==
    [][\A a \in Axes :
          HomingHit(a) /\ ~(a = 1 /\ lastNonzeroTrackMotorSpeed > 0) => HomingHitCompletes(a)]_vars

C2_Witness ==
    /\ hit = "NBLS" /\ out = <<<<"H", 2>>>> /\ homing[2] = 0 /\ ~needs_homing[2]

\* the track switch `id` is hit against the sign of the last non-zero track speed
WrongSide(id) ==
    \/ id = "TTLS" /\ lastNonzeroTrackMotorSpeed < 0
    \/ id = "TBLS" /\ lastNonzeroTrackMotorSpeed > 0

\* C3: a track switch triggered against the sign of the last non-zero track
\* speed emits 'W <id>', leaves needs-homing of the track true and emits no
\* 'H' frame, also when the track was homing.
C3_ReverseWind ==
    [][\A id \in {"TTLS", "TBLS"} :
          CtlStep /\ lpc = id /\ hit' = id /\ WrongSide(id) =>
              /\ out' = <<<<"W", id>>>>
              /\ needs_homing'[1]
              /\ \A a \in Axes : HomingCompleteCount(out', a) = 0]_vars

C3_Witness ==
    /\ hit = "TBLS" /\ out = <<<<"W", "TBLS">>>> /\ needs_homing[1] /\ homing[1] = 0
    /\ motor[1].currentPosition = -trackBottomLimitSwitch.backoff

HitWhileHoming(a) == hit' \in SwitchIds(a) /\ homing[a] = 1

\* C10 as stated: the step position of an axis is reset exactly by a limit
\* hit of that axis while it is homing and by the emergency stop.
C10_ResetOnlyHomingOrEstop ==
    [][CtlStep => \A a \in Axes : (a \in zeroed') <=> (EstopStep \/ HitWhileHoming(a))]_vars

\* C10: the step position of an axis is reset to zero exactly by a trigger of
\* a track or nod switch of that axis (homing or not), by a trigger of the
\* stage switch while the stage is homing, and by the emergency stop; after
\* the reset the axis stands still at zero or one backoff distance from it.
C10_ResetExactlyWhen ==
    [][CtlStep =>
          \A a \in Axes :
              /\ (a \in zeroed') <=>
                    \/ EstopStep
                    \/ a # 0 /\ hit' \in SwitchIds(a)
                    \/ a = 0 /\ HitWhileHoming(0)
              /\ a \in zeroed' =>
                    /\ Abs(motor'[a].currentPosition) \in {0, Backoff(a)}
                    /\ motor'[a].targetPosition = motor'[a].currentPosition]_vars

C10_Witness ==
    /\ hit = "TTLS" /\ zeroed = {1} /\ homing[1] = 0
    /\ out = <<<<"L", "TTLS", 1>>>>
    /\ motor[1].currentPosition = -trackTopLimitSwitch.backoff

\* the host as constructed: nothing received yet
NoData == [none |-> TRUE, is_running |-> 0, steps |-> 0]

\* sweeps one behaviour starts
MaxSweeps == 3

Sweeps == 1..MaxSweeps

\* ControlUI.__init__: initialize_hardware has polled once and requested the rates
InitHost ==
    /\ motor_data = [a \in Axes |-> NoData]
    /\ needs_homing_flag = FALSE
    /\ host_homing = [a \in Axes |-> FALSE]
    /\ estop_pressed = FALSE
    /\ cancel_sequence_flag = FALSE
    /\ sequence_active_flag = FALSE
    /\ calibrate_button = TRUE
    /\ calibrate_cancel_button = FALSE
    /\ manual_controls = TRUE
    /\ stack = <<>>
    /\ started = 0
    /\ clicks = 0
    /\ waypoints = [s \in Sweeps |-> <<>>]
    /\ captures = [s \in Sweeps |-> <<>>]
    /\ ended = {}
    /\ cancelled = {}
    /\ rx = << <<"P">>, <<"R">> >>
    /\ tx = <<>>

InitKin ==
    /\ request = <<>>
    /\ stage_motor_degrees = <<>>

\* no manual control was used yet
NoCall == [op |-> "none", asked |-> <<>>, lines |-> <<>>]

InitManual == call = NoCall /\ reported = <<>> /\ converted = <<>>

\* serial_timer.start(100) and delay(50), in milliseconds
PollIntervalMs == 100
EstopDelayMs == 50

\* the unit of time of the model, in milliseconds, and the two periods in it
TickMs == EstopDelayMs \div 2
PollTicks == PollIntervalMs \div TickMs
DelayTicks == EstopDelayMs \div TickMs

\* the serial timer was just started; the estop input was never asserted
InitTime ==
    /\ pollDue = PollTicks
    /\ delayLeft = 0
    /\ wasReleased = FALSE
    /\ releaseAge = 0
    /\ unseen = FALSE

\* int byteCounter = 0 and the zero-initialised array
InitBytes == byteCounter = 0 /\ incoming = <<>> /\ overrun = FALSE

Init == InitCtl /\ InitHost /\ InitKin /\ InitManual /\ InitTime /\ InitBytes

\* the controller on its own: the host does not act
HostIdle == UNCHANGED <<hostVars, linkVars, kinVars, byteVars, timeVars, manVars>>

\* the lines of one behaviour under Spec: MaxCmds lines and any number of
\* position requests
Arrives(line) == line = <<"P">> \/ sent < MaxCmds

Next ==
    \/ PressEstop /\ HostIdle
    \/ ReleaseEstop /\ HostIdle
    \/ LoopEstop /\ HostIdle
    \/ \E line \in Lines : Arrives(line) /\ LoopCommand(line) /\ HostIdle
    \/ LoopRun /\ HostIdle
    \/ \E ls \in LimitSwitches, triggered \in BOOLEAN :
          checkAndHandleLimitSwitch(ls, triggered) /\ HostIdle
    \/ \E triggered \in BOOLEAN : LoopStage(triggered) /\ HostIdle

Spec == Init /\ [][Next]_vars

(***************************************************************************)
(* SpecMove: the Move scenario.  One line 'M<a>+<n>' arrives while every   *)
(* axis is idle at step 0; afterwards only position requests arrive; the   *)
(* emergency stop is not pressed and no limit switch triggers.  The loop   *)
(* keeps cycling, step intervals elapse, and the host keeps polling.       *)
(***************************************************************************)
MoveCommand(a, n) == sent = 0 /\ LoopCommand(MoveLine(a, n))

PositionRequest == LoopCommand(<<"P">>)

QuietSwitches ==
    \/ \E ls \in LimitSwitches : checkAndHandleLimitSwitch(ls, FALSE)
    \/ LoopStage(FALSE)

NextMove ==
    \/ \E a \in Axes, n \in 1..MaxTravel : MoveCommand(a, n) /\ HostIdle
    \/ PositionRequest /\ HostIdle
    \/ LoopRun /\ HostIdle
    \/ QuietSwitches /\ HostIdle

SpecMove ==
    /\ Init
    /\ [][NextMove]_vars
    /\ SF_vars(LoopRunDue([a \in Axes |-> TRUE]) /\ HostIdle)
    /\ WF_vars(QuietSwitches /\ HostIdle)
    /\ SF_vars(PositionRequest /\ HostIdle)

\* the fields of axis a in a Position frame
RunningField(frame, a) == frame[2 + 2 * a]
PositionField(frame, a) == frame[3 + 2 * a]

IsPositionFrame(frames) == Len(frames) = 1 /\ frames[1][1] = "P"

\* a Position frame that shows axis a stopped at step n
ReportsStoppedAt(a, n) ==
    /\ IsPositionFrame(out)
    /\ RunningField(out[1], a) = 0
    /\ PositionField(out[1], a) = n

\* C7: the line 'M<a>+<n>' sets the target of axis a to n and changes nothing
\* else, the target is set by that step only, every Position report after it
\* shows axis a running while its position is below n, and the axis
\* eventually reports not running at step n.
C7_MoveScenario ==
    /\ [][\A a \in Axes, n \in 1..MaxTravel :
             MoveCommand(a, n) => motor' = [motor EXCEPT ![a].targetPosition = n]]_vars
    /\ [][\A a \in Axes :
             motor'[a].targetPosition # motor[a].targetPosition => sent = 0 /\ sent' = 1]_vars
    /\ [](\A a \in Axes :
             sent = 1 /\ motor[a].targetPosition > 0 /\ IsPositionFrame(out) =>
                 /\ PositionField(out[1], a) <= motor[a].targetPosition
                 /\ PositionField(out[1], a) < motor[a].targetPosition
                        => RunningField(out[1], a) = 1
                 /\ \A b \in Axes \ {a} :
                        RunningField(out[1], b) = 0 /\ PositionField(out[1], b) = 0)
    /\ \A a \in Axes, n \in 1..MaxTravel :
          (sent = 1 /\ motor[a].targetPosition = n) ~> ReportsStoppedAt(a, n)

C7_Witness ==
    /\ sent = 1 /\ motor[1].targetPosition = 2 /\ ReportsStoppedAt(1, 2)
    /\ motor[0] = InitMotor /\ motor[2] = InitMotor

(***************************************************************************)
(* SpecKin: the stage revolution arithmetic of positions_to_degrees, in    *)
(* exact arithmetic.  Degrees derived from steps are kept as the fraction  *)
(* 360 * steps / STAGE_STEPS_PER_REVOLUTION; theta is a whole number of    *)
(* degrees.                                                                *)
(***************************************************************************)
STAGE_STEPS_PER_REVOLUTION == 708839

\* revolutions on either side of zero the mirrored stage step count spans
MaxRevs == 1

\* round(num / den) of Python: to the nearest integer, ties to the even one
RoundDown(num, den) == num \div den

round(num, den) ==
    LET f == num \div den
        r == num - f * den
    IN  IF 2 * r < den THEN f
        ELSE IF 2 * r > den THEN f + 1
        ELSE IF f % 2 = 0 THEN f ELSE f + 1

\* the stage part of positions_to_degrees: steps is motor_data[0]["steps"],
\* theta is p[0]
StageMotorDegrees(steps, theta) ==
    LET N == STAGE_STEPS_PER_REVOLUTION
        \* current_stage_motor_degrees // 360
        current_revs == steps \div N
        \* (current_stage_motor_degrees % 360 - p[0]) * N
        diffN == 360 * (steps % N) - theta * N
        k == round(diffN, 360 * N)
    IN  theta + (current_revs + k) * 360

\* mirrored stage step counts: around each revolution boundary and around
\* the half revolution
StepSamples ==
    {q * STAGE_STEPS_PER_REVOLUTION + r :
        q \in -MaxRevs..MaxRevs,
        r \in {0, 1, 1969, STAGE_STEPS_PER_REVOLUTION \div 4,
               STAGE_STEPS_PER_REVOLUTION \div 2, (STAGE_STEPS_PER_REVOLUTION \div 2) + 1,
               STAGE_STEPS_PER_REVOLUTION - 1}}

ThetaSamples == {-180, -1, 0, 1, 90, 179, 180, 181, 270, 359, 360, 540}

\* a Position frame brings a new stage step count into the mirror
MirrorStage(steps) ==
    /\ motor_data' = [motor_data EXCEPT ![0] = [none |-> FALSE, is_running |-> 0, steps |-> steps]]
    /\ request' = <<>>
    /\ stage_motor_degrees' = <<>>
    /\ UNCHANGED <<ctlVars, linkVars, manVars, timeVars, byteVars, needs_homing_flag, host_homing,
                   estop_pressed, cancel_sequence_flag,
                   sequence_active_flag, calibrate_button, calibrate_cancel_button,
                   manual_controls, stack, started, clicks, waypoints, captures, ended,
                   cancelled>>

positions_to_degrees(theta) ==
    /\ ~motor_data[0].none
    /\ request' = <<theta>>
    /\ stage_motor_degrees' = <<StageMotorDegrees(motor_data[0].steps, theta)>>
    /\ UNCHANGED <<ctlVars, hostVars, linkVars, manVars, timeVars, byteVars>>

NextKin ==
    \/ \E steps \in StepSamples : MirrorStage(steps)
    \/ \E theta \in ThetaSamples : positions_to_degrees(theta)

SpecKin == Init /\ [][NextKin]_vars

\* |target - D| in units of 1 / STAGE_STEPS_PER_REVOLUTION degree, for the
\* target `revs` revolutions away from `target`
Distance(target, revs, steps) ==
    Abs((target * STAGE_STEPS_PER_REVOLUTION - 360 * steps)
        + 360 * revs * STAGE_STEPS_PER_REVOLUTION)

\* C8: the stage target is congruent to theta modulo 360 and no value
\* congruent to theta modulo 360 is nearer to the current stage angle.
C8_NearestRevolution ==
    stage_motor_degrees # <<>> =>
        LET target == stage_motor_degrees[1]
            steps == motor_data[0].steps
        IN  /\ (target - request[1]) % 360 = 0
            /\ \A revs \in -3..3 : Distance(target, 0, steps) <= Distance(target, revs, steps)

\* the stage stands just past one revolution and 359 degrees is asked for:
\* the target is 359, one degree back, not 719
C8_Witness ==
    /\ motor_data[0].steps = STAGE_STEPS_PER_REVOLUTION + 1
    /\ request = <<359>>
    /\ stage_motor_degrees = <<359>>

(***************************************************************************)
(* SpecSweep: the host sequencer with the controller on the other end of   *)
(* the serial link.  The emergency stop is not pressed and no limit switch *)
(* triggers.  The GUI thread runs one handler at a time.  A handler that   *)
(* runs a sweep goes on to the end of the sweep or to the event loop of a  *)
(* wait_for_all_motors_stopped that does not return at once; it only       *)
(* writes lines to the link, which the controller reads as it gets to      *)
(* them.                                                                   *)
(***************************************************************************)
\* the grid of a spin set
Rows == 2
Cols == 2
\* clicks on cancel and STOP in one behaviour
MaxClicks == 1

TRACK_MAX_STEPS == 780120 - 2 * (4 * 50)
NOD_MAX_STEPS == 143117 - 2 * (64 * 10)

\* the waypoints of capture_spin_set's nested loops, in the order it visits them
RowMajor == [i \in 1..(Rows * Cols) |-> <<((i - 1) \div Cols) + 1, ((i - 1) % Cols) + 1>>]

\* the step values positions_to_steps gives for waypoint (r, c), scaled to
\* the travel of the model: column c turns the stage, row r sets track and
\* nod, and different rows and columns have different targets
WaypointSteps(r, c) == <<c - 1, r - 1, r - 1>>

\* variant without the lower clamp
move_to_step_position_NoFloor(axis, steps) ==
    LET clamped ==
            CASE axis = 1 -> IF steps > TRACK_MAX_STEPS THEN TRACK_MAX_STEPS ELSE steps
              [] axis = 2 -> IF steps > NOD_MAX_STEPS THEN NOD_MAX_STEPS ELSE steps
              [] OTHER -> steps
    IN  MoveLine(axis, clamped)

\* the line move_to_step_position writes: track and nod targets are clamped
move_to_step_position(axis, steps) ==
    LET clamped ==
            CASE axis = 1 -> IF steps > TRACK_MAX_STEPS THEN TRACK_MAX_STEPS
                             ELSE IF steps < 0 THEN 0 ELSE steps
              [] axis = 2 -> IF steps > NOD_MAX_STEPS THEN NOD_MAX_STEPS
                             ELSE IF steps < 0 THEN 0 ELSE steps
              [] OTHER -> steps
    IN  MoveLine(axis, clamped)

\* variant that leaves the nod axis out
MoveToPositionLines_TwoAxes(step_values) ==
    [i \in 1..2 |-> move_to_step_position(i - 1, step_values[i])]

\* the lines move_to_position writes: for axis in range(3), one Move line
MoveToPositionLines(step_values) ==
    [i \in 1..3 |-> move_to_step_position(i - 1, step_values[i])]

\* the lines move_to_position writes for waypoint (r, c)
MoveLines(r, c) == MoveToPositionLines(WaypointSteps(r, c))

\* stop_all_motors
StopLines == [i \in 1..3 |-> <<"E", Digits[i]>>]

\* any(a["is_running"] for a in self.motor_data): None is false
AnyRunning(md) == \E a \in Axes : ~md[a].none /\ md[a].is_running # 0

\* poll_serial on one axis of a Position frame: the mirror after it and
\* whether it emits all_motors_stopped
ReportedRunning(line, axis) == line[axis * 2 + 2]
ReportedSteps(line, axis) == line[axis * 2 + 3]

JustStopped(md, line, axis) ==
    /\ ReportedRunning(line, axis) = 0
    /\ ~md[axis].none
    /\ md[axis].is_running # ReportedRunning(line, axis)
    /\ \A i \in Axes \ {axis} : md[i].none \/ md[i].is_running = 0

Mirrored(md, line, axis) ==
    [md EXCEPT ![axis] = [none |-> FALSE, is_running |-> ReportedRunning(line, axis),
                          steps |-> ReportedSteps(line, axis)]]

\* variant that stops decoding at a line with an unknown leading token
PollLine_Fatal(line, st) ==
    IF st.invalid # <<>> THEN st
    ELSE CASE line[1] = "P" ->
                [st EXCEPT !.md = Mirrored(Mirrored(Mirrored(st.md, line, 0), line, 1), line, 2)]
           [] line[1] = "N" -> [st EXCEPT !.needs_homing_flag = TRUE]
           [] line[1] = "E" -> [st EXCEPT !.estop_signal_detected = TRUE]
           [] line[1] = "H" -> [st EXCEPT !.homing[line[2]] = FALSE]
           [] line[1] = "R" -> st
           [] OTHER -> [st EXCEPT !.invalid = Append(st.invalid, line)]

\* poll_serial on one line; st carries the mirror, the needs-homing flag,
\* self.homing, estop_signal_detected, whether all_motors_stopped was
\* emitted and the lines printed as invalid
PollLine(line, st) ==
    CASE line[1] = "P" ->
           LET md1 == Mirrored(st.md, line, 0)
               md2 == Mirrored(md1, line, 1)
               md3 == Mirrored(md2, line, 2)
           IN  [st EXCEPT !.md = md3,
                          !.emitted = \/ st.emitted
                                      \/ JustStopped(st.md, line, 0)
                                      \/ JustStopped(md1, line, 1)
                                      \/ JustStopped(md2, line, 2)]
      [] line[1] = "N" -> [st EXCEPT !.needs_homing_flag = TRUE]
      [] line[1] = "E" -> [st EXCEPT !.estop_signal_detected = TRUE]
      [] line[1] = "H" -> [st EXCEPT !.homing[line[2]] = FALSE]
      \* the rates an R line carries are not part of the model
      [] line[1] = "R" -> st
      [] OTHER -> [st EXCEPT !.invalid = Append(st.invalid, line)]

RECURSIVE PollLines(_, _)
PollLines(lines, st) ==
    IF lines = <<>> THEN st ELSE PollLines(Tail(lines), PollLine(Head(lines), st))

\* an event loop whose quit() was called returns before it takes another event
Returning == stack # <<>> /\ stack[Len(stack)].quit

\* the GUI thread is ready to take an event
AtEvent == ~Returning

\* the position requests the controller has not read yet
Pending == Cardinality({i \in DOMAIN rx : rx[i] = <<"P">>})

\* the serial timer fires
\* the locals and fields poll_serial works on, before its first line
Polling ==
    [md |-> motor_data, needs_homing_flag |-> needs_homing_flag, homing |-> host_homing,
     estop_signal_detected |-> FALSE, emitted |-> FALSE, invalid |-> <<>>]

\* poll_serial on the lines that wait: the decoding and the estop edges
PollDecode ==
    LET st == PollLines(tx, Polling)
    IN  /\ motor_data' = st.md
        /\ needs_homing_flag' = st.needs_homing_flag
        /\ host_homing' = st.homing
        /\ reported' = st.invalid
        /\ stack' = IF st.emitted
                    THEN [i \in DOMAIN stack |-> [stack[i] EXCEPT !.quit = TRUE]]
                    ELSE stack
        /\ IF st.estop_signal_detected /\ ~estop_pressed
           THEN estop_pressed' = TRUE /\ manual_controls' = FALSE
           ELSE IF ~st.estop_signal_detected /\ estop_pressed
           THEN estop_pressed' = FALSE /\ manual_controls' = TRUE
           ELSE UNCHANGED <<estop_pressed, manual_controls>>

poll_serial ==
    /\ AtEvent
    /\ Pending = 0
    /\ PollDecode
    /\ tx' = <<>>
    /\ rx' = Append(rx, <<"P">>)
    /\ UNCHANGED <<cancel_sequence_flag, sequence_active_flag, calibrate_button,
                   calibrate_cancel_button, started, clicks, waypoints, captures, ended,
                   cancelled>>
    /\ UNCHANGED <<ctlVars, kinVars, byteVars, timeVars, call, converted>>


\* the loops of capture_spin_set with move_capture_wait, from waypoint
\* (sweep.r, sweep.c): sweep.at is "loop" at the head of the inner loop and
\* "capture" after wait_for_all_motors_stopped.  The result has sweep.at
\*   "end"     the loops are done, end_sequence is next
\*   "return"  the cancel flag was found set
\*   "wait"    wait_for_all_motors_stopped entered its event loop
RECURSIVE capture_spin_set(_)
capture_spin_set(sweep) ==
    IF sweep.at = "capture"
    THEN \* capture_image, then the next waypoint
         capture_spin_set(
            [sweep EXCEPT !.captures = Append(@, <<sweep.r, sweep.c>>),
                        !.at = "loop",
                        !.r = IF sweep.c < Cols THEN sweep.r ELSE sweep.r + 1,
                        !.c = IF sweep.c < Cols THEN sweep.c + 1 ELSE 1])
    ELSE IF sweep.r > Rows
    THEN [sweep EXCEPT !.at = "end"]
    ELSE IF sweep.cancel_sequence_flag
    THEN [sweep EXCEPT !.cancel_sequence_flag = FALSE, !.at = "return"]
    ELSE \* move_to_position, then wait_for_all_motors_stopped
         LET moved == [sweep EXCEPT !.rx = @ \o MoveLines(sweep.r, sweep.c),
                                  !.waypoints = Append(@, <<sweep.r, sweep.c>>)]
         IN  IF ~AnyRunning(motor_data)
             THEN capture_spin_set([moved EXCEPT !.at = "capture"])
             ELSE [moved EXCEPT !.at = "wait"]

\* sweep sid goes on from (r, c) with the enclosing event loops `outer` and
\* the buttons and flags as in `ui`
RunSweep(sid, r, c, at, outer, ui) ==
    LET sweep == capture_spin_set(
                  [at |-> at, r |-> r, c |-> c,
                   cancel_sequence_flag |-> cancel_sequence_flag, rx |-> rx,
                   waypoints |-> waypoints[sid], captures |-> captures[sid]])
        \* end_sequence
        after == IF sweep.at = "end"
                 THEN [manual_controls |-> TRUE, sequence_active_flag |-> FALSE,
                       calibrate_cancel_button |-> FALSE, calibrate_button |-> TRUE]
                 ELSE ui
    IN  /\ cancel_sequence_flag' = sweep.cancel_sequence_flag
        /\ rx' = sweep.rx
        /\ waypoints' = [waypoints EXCEPT ![sid] = sweep.waypoints]
        /\ captures' = [captures EXCEPT ![sid] = sweep.captures]
        /\ ended' = IF sweep.at = "end" THEN ended \cup {sid} ELSE ended
        /\ stack' = IF sweep.at = "wait"
                    THEN Append(outer, [sid |-> sid, r |-> sweep.r, c |-> sweep.c, quit |-> FALSE])
                    ELSE outer
        /\ manual_controls' = after.manual_controls
        /\ sequence_active_flag' = after.sequence_active_flag
        /\ calibrate_cancel_button' = after.calibrate_cancel_button
        /\ calibrate_button' = after.calibrate_button

\* a click on START
start_sequence ==
    /\ AtEvent
    /\ calibrate_button
    /\ started < MaxSweeps
    /\ IF needs_homing_flag
       THEN UNCHANGED <<calibrate_button, calibrate_cancel_button, manual_controls,
                        sequence_active_flag, started, cancel_sequence_flag, rx, waypoints,
                        captures, ended, stack>>
       ELSE /\ started' = started + 1
            /\ RunSweep(started + 1, 1, 1, "loop", stack,
                        [manual_controls |-> FALSE, sequence_active_flag |-> TRUE,
                         calibrate_cancel_button |-> TRUE, calibrate_button |-> FALSE])
    /\ UNCHANGED <<motor_data, needs_homing_flag, host_homing, estop_pressed, clicks, cancelled>>
    /\ UNCHANGED <<ctlVars, tx, kinVars, byteVars, timeVars, manVars>>

\* loop.exec_() of the innermost wait returns and its sweep goes on
LoopReturns ==
    /\ Returning
    /\ LET top == stack[Len(stack)]
       IN  RunSweep(top.sid, top.r, top.c, "capture", SubSeq(stack, 1, Len(stack) - 1),
                    [manual_controls |-> manual_controls,
                     sequence_active_flag |-> sequence_active_flag,
                     calibrate_cancel_button |-> calibrate_cancel_button,
                     calibrate_button |-> calibrate_button])
    /\ UNCHANGED <<motor_data, needs_homing_flag, host_homing, estop_pressed, started, clicks, cancelled>>
    /\ UNCHANGED <<ctlVars, tx, kinVars, byteVars, timeVars, manVars>>

\* the sweeps that have started and not returned
InProgress == {stack[i].sid : i \in DOMAIN stack}

\* cancel_sequence: the flag, stop_all_motors, end_sequence
CancelSequence ==
    /\ cancel_sequence_flag' = TRUE
    /\ rx' = rx \o StopLines
    /\ manual_controls' = TRUE
    /\ sequence_active_flag' = FALSE
    /\ calibrate_cancel_button' = FALSE
    /\ calibrate_button' = TRUE
    /\ cancelled' = cancelled \cup InProgress

\* a click on the cancel button
cancel_sequence ==
    /\ AtEvent
    /\ calibrate_cancel_button
    /\ clicks < MaxClicks
    /\ clicks' = clicks + 1
    /\ CancelSequence
    /\ UNCHANGED <<motor_data, needs_homing_flag, host_homing, estop_pressed, stack, started,
                   waypoints, captures, ended>>
    /\ UNCHANGED <<ctlVars, tx, kinVars, byteVars, timeVars, manVars>>

\* the operator has a reason to press STOP: a sweep is active or the display
\* shows an axis moving
StopWanted == sequence_active_flag \/ AnyRunning(motor_data)

\* a click on STOP
stop_button_clicked ==
    /\ AtEvent
    /\ StopWanted
    /\ clicks < MaxClicks
    /\ clicks' = clicks + 1
    /\ IF sequence_active_flag
       THEN CancelSequence
       ELSE /\ rx' = rx \o StopLines
            /\ UNCHANGED <<cancel_sequence_flag, manual_controls, sequence_active_flag,
                           calibrate_cancel_button, calibrate_button, cancelled>>
    /\ UNCHANGED <<motor_data, needs_homing_flag, host_homing, estop_pressed, stack, started,
                   waypoints, captures, ended>>
    /\ UNCHANGED <<ctlVars, tx, kinVars, byteVars, timeVars, manVars>>

\* the controller reads the next line the host wrote and prints its answer
SerialCommand ==
    /\ rx # <<>>
    /\ LoopCommand(Head(rx))
    /\ rx' = Tail(rx)
    /\ tx' = tx \o out'
    /\ UNCHANGED <<hostVars, kinVars, byteVars, timeVars, manVars>>

\* the step interval of every motor has elapsed
AllDue == [a \in Axes |-> TRUE]

\* the rest of a cycle in which no limit switch is triggered
QuietRest ==
    /\ lpc = "TTLS"
    /\ lpc' = "top"
    /\ out' = <<>>
    /\ hit' = "none"
    /\ zeroed' = {}
    /\ ran' = 0
    /\ lastNonzeroTrackMotorSpeed' =
          IF trackMotorSpeed # 0 THEN trackMotorSpeed ELSE lastNonzeroTrackMotorSpeed
    /\ UNCHANGED <<motor, homing, needs_homing, trackMotorSpeed, estopPin, sent,
                   maxSpeed, acceleration>>

NextSweep ==
    \/ poll_serial
    \/ start_sequence
    \/ LoopReturns
    \/ cancel_sequence
    \/ stop_button_clicked
    \/ SerialCommand
    \/ LoopRunDue(AllDue) /\ HostIdle
    \/ QuietRest /\ HostIdle

SpecSweep == Init /\ [][NextSweep]_vars

(***************************************************************************)
(* Properties of the sequencer.                                            *)
(***************************************************************************)
\* sweep s has started and has returned
Returned(s) == s <= started /\ s \notin InProgress

\* C4: a sweep that was not cancelled has, once it returned, performed the
\* waypoints of the grid in row-major order, each with one move_to_position
\* and one capture, and has called end_sequence.
C4_UncancelledSweepCompletes ==
    \A s \in Sweeps :
        Returned(s) /\ s \notin cancelled =>
            /\ waypoints[s] = RowMajor
            /\ captures[s] = RowMajor
            /\ s \in ended

\* C5: cancel_sequence during an active sweep writes E0, E1, E2, and a
\* sweep that was in progress when cancel_sequence ran calls
\* move_to_position for no further waypoint.
C5_CancelledSweepStops ==
    [][/\ clicks' # clicks /\ sequence_active_flag => rx' = rx \o StopLines
       /\ \A s \in cancelled : waypoints'[s] = waypoints[s]]_vars

\* C6: a waypoint is captured only when its Move lines were written in an
\* earlier step of the host, the controller has read every Move line, and
\* no axis is running.
C6_CaptureAfterSettle ==
    [][\A s \in Sweeps :
          captures'[s] # captures[s] =>
              /\ Len(captures'[s]) <= Len(waypoints[s])
              /\ \A i \in DOMAIN rx : rx[i][1] # "M"
              /\ \A a \in Axes : isRunning(motor[a]) = 0]_vars

\* C18: a cycle of loop() that finds the estop input asserted writes the one
\* frame 'E', executes no command (no target, homing flag or needs-homing
\* flag changes, no P or R frame is written), steps no motor and ends; from
\* that cycle on, for as long as the input stays asserted, the three step
\* positions are zero and no axis is running.
C18_EstopSuspends ==
    /\ [][EstopStep =>
             /\ out' = <<<<"E">>>>
             /\ \A a \in Axes : motor'[a] = InitMotor
             /\ homing' = homing
             /\ needs_homing' = needs_homing
             /\ sent' = sent
             /\ lpc' = "top"]_vars
    /\ [][estopPin /\ estopPin' /\ zeroed = Axes =>
             /\ zeroed' = Axes
             /\ \A a \in Axes : motor'[a].currentPosition = 0 /\ isRunning(motor'[a]) = 0]_vars

\* an estop cycle ran after a command had started a homing jog
C18_Witness ==
    /\ estopPin
    /\ zeroed = Axes
    /\ out = <<<<"E">>>>
    /\ sent = MaxCmds
    /\ \E a \in Axes : homing[a] = 1

(***************************************************************************)
(* The manual controls of the host.  The serial link is free here: any     *)
(* position frame may arrive and the lines the host wrote are read one at  *)
(* a time; the controller itself is idle.                                  *)
(***************************************************************************)

\* step positions a position frame reports under SpecManual
FrameSteps == <<{0, 800000}, {0, TRACK_MAX_STEPS}, {0}>>

\* position frames that arrive under SpecManual
Frames ==
    {<<"P", r0, p0, 0, p1, 0, p2>> :
        r0 \in {0, 1}, p0 \in FrameSteps[1], p1 \in FrameSteps[2], p2 \in FrameSteps[3]}

\* step targets positions_to_steps hands to move_to_position under SpecManual
StepValues ==
    {<<s0, s1, s2>> :
        s0 \in {0 - 20000, 0, 800000},
        s1 \in {0 - 1, 0, TRACK_MAX_STEPS + 1},
        s2 \in {0 - 1, 0, NOD_MAX_STEPS + 1}}

\* the controller wrote a position frame
PositionArrives(frame) ==
    /\ tx = <<>>
    /\ tx' = <<frame>>
    /\ UNCHANGED <<ctlVars, hostVars, rx, kinVars, byteVars, timeVars, manVars>>

\* the controller read one line
LineRead ==
    /\ rx # <<>>
    /\ rx' = Tail(rx)
    /\ UNCHANGED <<ctlVars, hostVars, tx, kinVars, byteVars, timeVars, manVars>>

\* the mirror holds a step position for every axis
MirrorKnown == \A a \in Axes : ~motor_data[a].none

\* the controller has read every line but the position request of the last poll
LinkDrained == \A i \in DOMAIN rx : rx[i] = <<"P">>

\* send_command of every line of a handler, and the record of the call
Transmit(op, asked, lines) ==
    /\ LinkDrained
    /\ rx' = rx \o lines
    /\ call' = [op |-> op, asked |-> asked, lines |-> lines]
    /\ UNCHANGED <<ctlVars, hostVars, tx, kinVars, byteVars, timeVars, reported, converted>>

move_to_position(step_values) ==
    /\ MirrorKnown
    /\ Transmit("move_to_position", step_values, MoveToPositionLines(step_values))

\* step_incr of increment_position
step_incr(axis) == IF axis = 2 THEN 40000 ELSE 20000

increment_position(axis, direction) ==
    /\ MirrorKnown
    /\ LET steps == motor_data[axis].steps + direction * step_incr(axis)
       IN  Transmit("increment_position", <<axis, steps>>,
                    <<move_to_step_position(axis, steps)>>)

\* home_axis(axis) for one axis (axis < 3) and for all of them (axis = 3)
home_axis(axis) ==
    /\ axis \in 0..3
    /\ Transmit("home_axis", <<axis>>,
                IF axis < 3 THEN <<<<"H", Digits[axis + 1]>>>>
                ELSE [i \in 1..3 |-> <<"H", Digits[i]>>])

NextManual ==
    \/ \E frame \in Frames : PositionArrives(frame)
    \/ LineRead
    \/ poll_serial
    \/ \E step_values \in StepValues : move_to_position(step_values)
    \/ \E axis \in Axes, direction \in {0 - 1, 1} : increment_position(axis, direction)
    \/ \E axis \in 0..3 : home_axis(axis)

SpecManual == Init /\ [][NextManual]_vars

(***************************************************************************)
(* Properties of the manual controls.                                      *)
(***************************************************************************)

\* the Move lines among the lines left unread on the link
MoveLinesOf(lines, axis) ==
    {i \in DOMAIN lines : lines[i][1] = "M" /\ AxisOf(lines[i]) = axis}

\* C11: every Move line the host transmits for the track axis carries, as
\* the controller decodes it, a target in 0..TRACK_MAX_STEPS, and every Move
\* line for the nod axis a target in 0..NOD_MAX_STEPS, whatever was asked
\* (a target out of range is replaced by the nearer end of the range and
\* the line is still transmitted); a Move line for the rotation axis
\* carries the target that was asked.
C11_TravelClamped ==
    /\ \A i \in MoveLinesOf(rx, 1) : ValueOf(rx[i]) \in 0..TRACK_MAX_STEPS
    /\ \A i \in MoveLinesOf(rx, 2) : ValueOf(rx[i]) \in 0..NOD_MAX_STEPS
    /\ call.op = "move_to_position" =>
          /\ \A a \in Axes : MoveLinesOf(call.lines, a) # {}
          /\ \A i \in MoveLinesOf(call.lines, 0) : ValueOf(call.lines[i]) = call.asked[1]
          /\ \A i \in MoveLinesOf(call.lines, 1) :
                ValueOf(call.lines[i]) =
                    IF call.asked[2] < 0 THEN 0
                    ELSE IF call.asked[2] > TRACK_MAX_STEPS THEN TRACK_MAX_STEPS
                    ELSE call.asked[2]
    /\ call.op = "increment_position" =>
          /\ Len(call.lines) = 1
          /\ call.asked[1] = 0 => ValueOf(call.lines[1]) = call.asked[2]
          /\ call.asked[1] = 2 /\ call.asked[2] < 0 => ValueOf(call.lines[1]) = 0

\* a track target below the range and a nod target above it were asked and
\* the three Move lines are on the link
C11_Witness ==
    /\ call.op = "move_to_position"
    /\ call.asked[1] < 0
    /\ call.asked[2] < 0
    /\ call.asked[3] > NOD_MAX_STEPS
    /\ Len(rx) >= 3
    /\ MoveLinesOf(rx, 1) # {}
    /\ MoveLinesOf(rx, 2) # {}

\* a step of move_to_position
MoveToPositionStep == \E step_values \in StepValues : move_to_position(step_values)

\* the axes whose computed step target equals the step position of the mirror
Unchanged(step_values) == {a \in Axes : step_values[a + 1] = motor_data[a].steps}

\* C12 as stated: move_to_position transmits no Move line for an axis whose
\* computed step target equals its current step position.
C12_OnlyChangedAxes ==
    [][MoveToPositionStep =>
          \A a \in Unchanged(call'.asked) : MoveLinesOf(call'.lines, a) = {}]_vars

\* C12: move_to_position transmits three Move lines, for the axes 0, 1 and 2
\* in this order, also for an axis whose computed step target equals its
\* current step position.
C12_OneMovePerAxis ==
    [][MoveToPositionStep =>
          /\ Len(rx') = Len(rx) + 3
          /\ \A a \in Axes :
                /\ rx'[Len(rx) + a + 1][1] = "M"
                /\ AxisOf(rx'[Len(rx) + a + 1]) = a]_vars

\* move_to_position ran with the track and nod targets at their current step
\* positions, and its Move lines for these axes are on the link
C12_Witness ==
    /\ call.op = "move_to_position"
    /\ {1, 2} \subseteq Unchanged(call.asked)
    /\ call.asked[1] # motor_data[0].steps
    /\ MoveLinesOf(rx, 1) # {}
    /\ MoveLinesOf(rx, 2) # {}

(***************************************************************************)
(* The command dispatch of the controller on well-formed and malformed     *)
(* lines, with the estop input released and no limit switch triggered.     *)
(***************************************************************************)

\* lines that arrive on the serial link under SpecDispatch
DispatchLines ==
    {<<"H", "1", s, "1">> : s \in {"+", "-"}}
    \cup {<<"H", "2">>, <<"M", "0", "+", "2">>, <<"E", "0">>, <<"P">>}
    \cup {<<"X", "1", "+", "1">>, <<"M", "1", "+", "a">>, <<"M", "3", "+", "1">>}

NextDispatch ==
    \/ \E line \in DispatchLines : Arrives(line) /\ LoopCommand(line) /\ HostIdle
    \/ LoopRunDue(AllDue) /\ HostIdle
    \/ QuietRest /\ HostIdle

SpecDispatch == Init /\ [][NextDispatch]_vars

(***************************************************************************)
(* Properties of the command dispatch.                                     *)
(***************************************************************************)

\* the Home lines that carry a payload
HomeLines == {line \in DispatchLines : line[1] = "H" /\ Len(line) = 4}

\* the side a Home payload selects: +1 the positive one, -1 the negative one
SelectedSide(line) == IF incomingBytes(line, 2) = "-" THEN 0 - 1 ELSE 1

\* C13: a Home line marks its axis homing and starts a jog toward the side
\* its payload selects: the target moves above the position for +1 and
\* below it for -1.
C13_HomeDirection ==
    [][\A line \in HomeLines :
          LoopCommand(line) =>
              /\ homing'[AxisOf(line)] = 1
              /\ Sgn(motor'[AxisOf(line)].targetPosition
                       - motor[AxisOf(line)].currentPosition) = SelectedSide(line)]_vars

\* the kind character is none of the cases of the switch
UnknownKind(line) == incomingBytes(line, 0) \notin MotorKinds \cup {"P", "R"}

\* a motion or rate command whose axis character is not 0, 1 or 2
AxisOutside(line) ==
    incomingBytes(line, 0) \in MotorKinds /\ incomingBytes(line, 1) \notin {"0", "1", "2"}

\* some character of the payload is not a digit
NonDigitPayload(line) ==
    \E i \in 4..Len(line) : line[i] \notin {Digits[d] : d \in 1..10}

Malformed == {line \in DispatchLines :
                 UnknownKind(line) \/ AxisOutside(line) \/ NonDigitPayload(line)}

\* C15: a malformed line (unknown kind, axis character outside 0..2 on a
\* motion or rate command, or a payload with a character that is no digit)
\* changes no target, position, homing flag or needs-homing flag and emits
\* no frame.
C15_MalformedDropped ==
    [][\A line \in Malformed :
          LoopCommand(line) =>
              /\ motor' = motor
              /\ homing' = homing
              /\ needs_homing' = needs_homing
              /\ out' = <<>>]_vars

(***************************************************************************)
(* The decoding of status lines by the host: any frame of the controller   *)
(* may arrive between two polls.                                           *)
(***************************************************************************)

\* the most lines waiting at a poll
MaxFrames == 2

\* the frames the controller writes: position reports, homing complete,
\* emergency stop, limit-switch hit and reverse winding
StatusFrames ==
    {<<"P", 0, 0, 0, 0, 0, 0>>, <<"P", 1, 1, 0, 0, 0, 0>>, <<"P", 0, 2, 0, 0, 0, 0>>}
    \cup {<<"H", 1>>, <<"E">>, <<"N">>}
    \cup {<<"L", "TTLS", trackTopLimitSwitch.backoff>>, <<"W", "TBLS">>}

FrameArrives(frame) ==
    /\ Len(tx) < MaxFrames
    /\ tx' = Append(tx, frame)
    /\ UNCHANGED <<ctlVars, hostVars, rx, kinVars, byteVars, timeVars, manVars>>

NextPoll ==
    \/ \E frame \in StatusFrames : FrameArrives(frame)
    \/ LineRead
    \/ poll_serial

SpecPoll == Init /\ [][NextPoll]_vars

\* the leading tokens poll_serial has a branch for
KnownTokens == {"P", "R", "N", "H", "E"}

KnownToken(line) == line[1] \in KnownTokens

UnknownToken(line) == ~KnownToken(line)

\* estop_signal_detected after the lines were decoded
EstopDetected(lines) == \E i \in DOMAIN lines : lines[i] = <<"E">>

\* the last position frame among the lines
LastPosition(lines) ==
    LET ps == SelectSeq(lines, LAMBDA l : l[1] = "P") IN ps[Len(ps)]

\* C16: poll_serial prints every line whose leading token is unknown as
\* invalid and goes on: the mirror, the needs-homing flag, self.homing and
\* the estop state after the poll are those the other lines give (unchanged
\* when there is no other line), and one position request is written.
C16_UnknownTokenSkipped ==
    [][poll_serial =>
          /\ reported' = SelectSeq(tx, UnknownToken)
          /\ rx' = Append(rx, <<"P">>)
          /\ tx' = <<>>
          /\ needs_homing_flag' = (needs_homing_flag \/ \E i \in DOMAIN tx : tx[i] = <<"N">>)
          /\ estop_pressed' = EstopDetected(tx)
          /\ host_homing' = host_homing
          /\ IF \E i \in DOMAIN tx : tx[i][1] = "P"
             THEN \A a \in Axes :
                     /\ motor_data'[a].steps = PositionField(LastPosition(tx), a)
                     /\ motor_data'[a].is_running = RunningField(LastPosition(tx), a)
             ELSE motor_data' = motor_data]_vars

\* a poll decoded a line with an unknown token and, after it, a position
\* frame that changed the mirror
C16_Witness ==
    /\ Len(reported) = 1
    /\ reported[1][1] = "W"
    /\ ~motor_data[0].none
    /\ motor_data[0].steps = 2
    /\ rx # <<>>
    /\ tx = <<>>

\* the Stop lines with an axis of the controller
StopLinesIn(lines) == {line \in lines : line[1] = "E" /\ ~NullMotor(line)}

\* C20: the dispatch of a Stop line writes exactly one frame, a Position
\* frame that carries, for each of the three axes, the running flag and the
\* step position the axis has after the stop.
C20_StopReports ==
    [][\A line \in StopLinesIn(DispatchLines) :
          LoopCommand(line) =>
              /\ Len(out') = 1
              /\ out'[1][1] = "P"
              /\ Len(out'[1]) = 7
              /\ \A a \in Axes :
                    /\ RunningField(out'[1], a) = isRunning(motor'[a])
                    /\ PositionField(out'[1], a) = motor'[a].currentPosition]_vars

\* a Stop line was dispatched while the stage was on its way to step 2: the
\* frame shows the stage running at step 1, retargeted to step 2 or 3
C20_Witness ==
    /\ lpc = "cmds"
    /\ sent = 2
    /\ IsPositionFrame(out)
    /\ RunningField(out[1], 0) = 1
    /\ PositionField(out[1], 0) = 1
    /\ homing = [a \in Axes |-> 0]
    /\ motor[0].currentPosition = 1
    /\ motor[0].targetPosition \in {2, 3}

(***************************************************************************)
(* One command that starts an axis, then one stop_motor of the host, read  *)
(* by a controller that keeps cycling and is asked for its position.       *)
(***************************************************************************)

\* the first command: a Move or a Home for one axis
StartCommand(line) == sent = 0 /\ LoopCommand(line)

StartLines ==
    {MoveLine(a, n) : a \in Axes, n \in 1..MaxTravel} \cup {<<"H", Digits[a + 1]>> : a \in Axes}

\* stop_motor(axis) of the host and the dispatch of its line 'E<axis>'; the
\* stopping distance stays within the travel of the model
StopCommand(axis) ==
    /\ sent = 1
    /\ \A k \in 1..MaxStopSteps :
          InTravel(axis, motor[axis].currentPosition + speed(motor[axis]) * k)
    /\ LoopCommand(<<"E", Digits[axis + 1]>>)
    /\ call' = [op |-> "stop_motor", asked |-> <<axis>>, lines |-> <<<<"E", Digits[axis + 1]>>>>]
    /\ UNCHANGED <<hostVars, linkVars, kinVars, byteVars, timeVars, reported, converted>>

NextStop ==
    \/ \E line \in StartLines : StartCommand(line) /\ HostIdle
    \/ \E axis \in Axes : StopCommand(axis)
    \/ PositionRequest /\ HostIdle
    \/ LoopRun /\ HostIdle
    \/ QuietSwitches /\ HostIdle

SpecStop ==
    /\ Init
    /\ [][NextStop]_vars
    /\ SF_vars(LoopRunDue([a \in Axes |-> TRUE]) /\ HostIdle)
    /\ WF_vars(QuietSwitches /\ HostIdle)
    /\ SF_vars(PositionRequest /\ HostIdle)

\* a step of StopCommand for some axis
Stopping(axis) == StopCommand(axis)

\* steps from the position of m to its target, in the direction of motion
Ahead(m) == Abs(m.targetPosition - m.currentPosition)

\* what a Stop line leaves alone: the position of its axis, the other two
\* axes, the homing flags of the other axes and every needs-homing flag
StopFrame(axis) ==
    /\ homing'[axis] = 0
    /\ motor'[axis].currentPosition = motor[axis].currentPosition
    /\ needs_homing' = needs_homing
    /\ \A b \in Axes \ {axis} : motor'[b] = motor[b] /\ homing'[b] = homing[b]

\* an earlier stop_motor(axis) is reported: a Position frame shows the axis
\* not running
ReportsStopped(axis) ==
    /\ call.op = "stop_motor"
    /\ call.asked = <<axis>>
    /\ IsPositionFrame(out)
    /\ RunningField(out[1], axis) = 0

Base == 10 ^ 6

\* const int MAX_DIGITS = 10
MAX_DIGITS == 10

Wide(n) == [neg |-> n < 0, hi |-> Abs(n) \div Base, lo |-> Abs(n) % Base]

\* w + n for w >= 0 and -Base < n < Base
AddWide(w, n) ==
    LET lo == w.lo + n
    IN  IF lo >= Base THEN [neg |-> FALSE, hi |-> w.hi + 1, lo |-> lo - Base]
        ELSE IF lo >= 0 THEN [neg |-> FALSE, hi |-> w.hi, lo |-> lo]
        ELSE IF w.hi > 0 THEN [neg |-> FALSE, hi |-> w.hi - 1, lo |-> lo + Base]
        ELSE [neg |-> TRUE, hi |-> 0, lo |-> 0 - lo]

\* w > n for 0 <= n < Base
WideAbove(w, n) == ~w.neg /\ (w.hi > 0 \/ w.lo > n)

\* str(abs(steps))
DecimalWide(w) ==
    IF w.hi = 0 THEN Decimal(w.lo)
    ELSE Decimal(w.hi) \o [i \in 1..6 |-> Digits[((w.lo \div (10 ^ (6 - i))) % 10) + 1]]

\* the step count move_to_step_position sends and returns
ClampWide(axis, steps) ==
    LET limit == IF axis = 1 THEN TRACK_MAX_STEPS ELSE NOD_MAX_STEPS
    IN  IF axis = 0 THEN steps
        ELSE IF WideAbove(steps, limit) THEN Wide(limit)
        ELSE IF steps.neg THEN Wide(0) ELSE steps

\* move_to_step_position on a step count of any size
move_to_step_position_wide(axis, steps) ==
    LET clamped == ClampWide(axis, steps)
    IN  <<"M", Digits[axis + 1], IF clamped.neg THEN "-" ELSE "+">> \o DecimalWide(clamped)

\* step positions a position frame carries under SpecWide
WideSteps ==
    {Wide(0), Wide(2147483647), [neg |-> FALSE, hi |-> 9999, lo |-> 990000],
     [neg |-> FALSE, hi |-> 99999, lo |-> 0]}

WideFrames ==
    {<<"P", r0, p0, 0, p1, 0, Wide(0)>> : r0 \in {0, 1}, p0 \in WideSteps, p1 \in WideSteps}

\* a position frame arrives; the host reads each field with int()
WideFrameArrives(frame) ==
    /\ tx = <<>>
    /\ tx' = <<frame>>
    /\ UNCHANGED <<ctlVars, hostVars, rx, kinVars, byteVars, timeVars, manVars>>

increment_position_wide(axis, direction) ==
    /\ MirrorKnown
    /\ LET steps == AddWide(motor_data[axis].steps, direction * step_incr(axis))
       IN  Transmit("increment_position", <<axis, steps>>,
                    <<move_to_step_position_wide(axis, steps)>>)

NextWide ==
    \/ \E frame \in WideFrames : WideFrameArrives(frame)
    \/ LineRead
    \/ poll_serial
    \/ \E axis \in Axes, direction \in {0 - 1, 1} : increment_position_wide(axis, direction)

SpecWide == Init /\ [][NextWide]_vars

\* the number of characters after kind, axis and sign
PayloadDigits(line) == IF Len(line) > 3 THEN Len(line) - 3 ELSE 0

Micro == 10 ^ 6

\* TRACK_DEGREE_OFFSET = 16.7, NOD_DEGREE_OFFSET = 29.9, in micro-degrees
TRACK_DEGREE_OFFSET == 16700000
NOD_DEGREE_OFFSET == 29900000

\* NOD_MAX_DEGREES = 29.9 + 27.4
NOD_MAX_DEGREES == 29900000 + 27400000

\* from <<q, r>> with a * k = q * c + r to the pair for a * (4 * k + digit)
ShiftAdd(h, a, c, digit) ==
    LET t == 4 * h[2] + digit * (a % c)
    IN  <<4 * h[1] + digit * (a \div c) + (t \div c), t % c>>

\* <<q, r>> with a * b = q * c + r and 0 <= r < c, without forming the
\* product a * b; for a, b >= 0, c > 0 and 4 * c + 3 * (a % c) < 2^31
RECURSIVE MulDivMod(_, _, _)
MulDivMod(a, b, c) ==
    IF b = 0 THEN <<0, 0>> ELSE ShiftAdd(MulDivMod(a, b \div 4, c), a, c, b % 4)

\* floor and ceiling of a * b / c for a, b >= 0
MulDivFloor(a, b, c) == MulDivMod(a, b, c)[1]

MulDivCeil(a, b, c) ==
    LET h == MulDivMod(a, b, c) IN IF h[2] > 0 THEN h[1] + 1 ELSE h[1]

\* floor of x * b / c for x of either sign
ScaleFloor(x, b, c) ==
    IF x >= 0 THEN MulDivFloor(b, x, c) ELSE 0 - MulDivCeil(b, 0 - x, c)

\* int(x * b / c): the fraction is dropped, toward zero
ScaleInt(x, b, c) ==
    IF x >= 0 THEN MulDivFloor(b, x, c) ELSE 0 - MulDivFloor(b, 0 - x, c)

\* steps_to_degrees: the micro-degrees at or just below the exact value
\*   stage (steps / STAGE_STEPS_PER_REVOLUTION) * 360.0
\*   track 3.44e-11 * steps^2 + 1.11e-4 * steps - TRACK_DEGREE_OFFSET
\*   nod   (NOD_MAX_DEGREES / NOD_MAX_STEPS) * steps - NOD_DEGREE_OFFSET
steps_to_degrees(axis, steps) ==
    CASE axis = 0 -> ScaleFloor(steps, 360 * Micro, STAGE_STEPS_PER_REVOLUTION)
      [] axis = 1 -> MulDivFloor(steps, 344 * steps, 10 ^ 7) + 111 * steps
                       - TRACK_DEGREE_OFFSET
      [] axis = 2 -> ScaleFloor(steps, NOD_MAX_DEGREES, NOD_MAX_STEPS) - NOD_DEGREE_OFFSET

\* the micro-degrees a double can be taken for when its exact value has
\* floor d: the double is within 10^-9 degrees of the exact value
Nearby(d) == (d - 1)..(d + 2)

\* 3.44e-11 * r^2 + 1.11e-4 * r <= u, for r >= 0 and u in micro-degrees
TrackAtMost(r, u) == MulDivCeil(r, 344 * r, 10 ^ 7) + 111 * r <= u

\* 1.11e-4 * r - 3.44e-11 * r^2 <= u, for 0 <= r < 2^20
TrackBelowAtMost(r, u) == 111 * r - MulDivFloor(r, 344 * r, 10 ^ 7) <= u

\* the largest r + n, 0 <= n < 2^k, within reach of u
RECURSIVE Largest(_, _, _, _)
Largest(r, k, u, below) ==
    IF k = 0 THEN r
    ELSE LET up == r + 2 ^ (k - 1)
         IN  IF (below /\ TrackBelowAtMost(up, u)) \/ (~below /\ TrackAtMost(up, u))
             THEN Largest(up, k - 1, u, below)
             ELSE Largest(r, k - 1, u, below)

\* int((-1.11e-4 + sqrt(1.2321e-8 + 1.376e-10 * u)) / 6.88e-11): the root x of
\* 3.44e-11 * x^2 + 1.11e-4 * x = u, its fraction dropped toward zero
TrackRoot(u) == IF u >= 0 THEN Largest(0, 20, u, FALSE) ELSE 0 - Largest(0, 20, 0 - u, TRUE)

\* variant that leaves the offsets out
degrees_to_steps_NoOffset(axis, degrees) ==
    CASE axis = 0 -> ScaleInt(degrees, STAGE_STEPS_PER_REVOLUTION, 360 * Micro)
      [] axis = 1 -> TrackRoot(degrees)
      [] axis = 2 -> ScaleInt(degrees, NOD_MAX_STEPS, NOD_MAX_DEGREES)

\* degrees_to_steps at an angle of a whole number of micro-degrees
\*   stage int(STAGE_STEPS_PER_REVOLUTION * degrees / 360.0)
\*   track int((-1.11e-4 + sqrt(1.2321e-8 + 1.376e-10 * (TRACK_DEGREE_OFFSET + degrees))) / 6.88e-11)
\*   nod   int((NOD_MAX_STEPS / NOD_MAX_DEGREES) * (degrees + NOD_DEGREE_OFFSET))
degrees_to_steps(axis, degrees) ==
    CASE axis = 0 -> ScaleInt(degrees, STAGE_STEPS_PER_REVOLUTION, 360 * Micro)
      [] axis = 1 -> TrackRoot(TRACK_DEGREE_OFFSET + degrees)
      [] axis = 2 -> ScaleInt(degrees + NOD_DEGREE_OFFSET, NOD_MAX_STEPS, NOD_MAX_DEGREES)

\* how many step counts at each end of a travel range are converted
NearEnds == 3

\* the step counts converted under SpecConvert: the ends of the travel of
\* track and nod and some counts between; for the stage, which has no end
\* of travel, counts around zero and around one revolution either way
StepCounts(axis) ==
    CASE axis = 0 ->
           ((0 - NearEnds)..NearEnds)
           \cup {STAGE_STEPS_PER_REVOLUTION + k : k \in (0 - NearEnds)..NearEnds}
           \cup {0 - STAGE_STEPS_PER_REVOLUTION, 2 * STAGE_STEPS_PER_REVOLUTION, 354419}
      [] axis = 1 ->
           (0..NearEnds) \cup ((TRACK_MAX_STEPS - NearEnds)..TRACK_MAX_STEPS)
           \cup {12345, 390000, 700001}
      [] axis = 2 ->
           (0..NearEnds) \cup ((NOD_MAX_STEPS - NearEnds)..NOD_MAX_STEPS)
           \cup {777, 70919}

\* steps_to_degrees(axis, steps): the double it returns
ToDegrees(axis, steps) ==
    /\ \E degrees \in Nearby(steps_to_degrees(axis, steps)) :
          converted' = [axis |-> axis, steps |-> steps, degrees |-> degrees, back |-> <<>>]
    /\ UNCHANGED <<ctlVars, hostVars, linkVars, kinVars, byteVars, timeVars, call, reported>>

\* degrees_to_steps(axis, degrees) on that double
ToSteps ==
    /\ converted # <<>>
    /\ converted.back = <<>>
    /\ converted' =
          [converted EXCEPT !.back = <<degrees_to_steps(converted.axis, converted.degrees)>>]
    /\ UNCHANGED <<ctlVars, hostVars, linkVars, kinVars, byteVars, timeVars, call, reported>>

NextConvert ==
    \/ \E axis \in Axes : \E steps \in StepCounts(axis) : ToDegrees(axis, steps)
    \/ ToSteps

SpecConvert == Init /\ [][NextConvert]_vars

\* C14: for each axis and each step count s of its travel,
\* degrees_to_steps(axis, steps_to_degrees(axis, s)) is s - 1, s or s + 1.
C14_RoundTrip ==
    converted # <<>> /\ converted.back # <<>> =>
        Abs(converted.back[1] - converted.steps) <= 1

\* the top of the track travel came back one step short
C14_Witness ==
    /\ converted # <<>>
    /\ converted.axis = 1
    /\ converted.steps = TRACK_MAX_STEPS
    /\ converted.back = <<TRACK_MAX_STEPS - 1>>

(***************************************************************************)
(* SpecRates: the rate commands and the two requests of the controller,    *)
(* with the estop input released and no limit switch triggered.            *)
(***************************************************************************)

\* lines that arrive on the serial link under SpecRates
RateLines ==
    {<<"S", "1", "+", "5">>, <<"A", "2", "-", "7">>, <<"M", "0", "+", "1">>, <<"H", "1">>}
    \cup {<<"P">>, <<"R">>}

NextRates ==
    \/ \E line \in RateLines : Arrives(line) /\ LoopCommand(line) /\ HostIdle
    \/ LoopRunDue(AllDue) /\ HostIdle
    \/ QuietRest /\ HostIdle

SpecRates == Init /\ [][NextRates]_vars

\* the step leaves every target, position, rate and flag of the axes alone
AxesUntouched ==
    /\ motor' = motor
    /\ maxSpeed' = maxSpeed
    /\ acceleration' = acceleration
    /\ homing' = homing
    /\ needs_homing' = needs_homing

\* the running flag of axis a as a Position frame shows it
RunningFlag(a) ==
    IF motor[a].currentPosition = motor[a].targetPosition THEN 0 ELSE 1

MaxBuffered == 2

\* lines the host writes under SpecDrain
DrainLines == {<<"M", "0", "+", "1">>, <<"J", "2", "-", "1">>, <<"P">>}

\* a complete line reaches the receive buffer
Buffered(line) ==
    /\ Len(rx) < MaxBuffered
    /\ line = <<"P">> \/ sent + Len(rx) < MaxCmds
    /\ rx' = Append(rx, line)
    /\ UNCHANGED <<ctlVars, hostVars, tx, kinVars, byteVars, timeVars, manVars>>

\* one pass of the while loop: Serial.available() > 0 and the bytes read end
\* a line, which is executed
DrainCommand ==
    /\ rx # <<>>
    /\ LoopCommand(Head(rx))
    /\ rx' = Tail(rx)
    /\ UNCHANGED <<hostVars, tx, kinVars, byteVars, timeVars, manVars>>

\* Serial.available() is 0: the while loop is left and the motors are run
LoopRunDrained ==
    /\ rx = <<>>
    /\ LoopRunDue(AllDue)
    /\ HostIdle

NextDrain ==
    \/ \E line \in DrainLines : Buffered(line)
    \/ DrainCommand
    \/ LoopRunDrained
    \/ QuietRest /\ HostIdle
    \/ PressEstop /\ HostIdle
    \/ ReleaseEstop /\ HostIdle
    \/ LoopEstop /\ HostIdle

SpecDrain == Init /\ [][NextDrain]_vars

\* C22: a loop cycle executes at most one buffered command: a command is
\* executed only as the first one of its cycle, so that the motors are run
\* and the inputs are sampled between two commands.
C22_OneCommandPerCycle ==
    [][DrainCommand => lpc = "top"]_vars

(***************************************************************************)
(* Force moves, under Spec.                                                *)
(***************************************************************************)

\* the Force lines among the lines of Spec
ForceLines == {line \in Lines : line[1] = "F"}

\* the signed number a line carries after its axis character
SignedPayload(line) ==
    LET n == CHOOSE k \in 0..9 : Digits[k + 1] = line[4]
    IN  IF line[3] = "-" THEN 0 - n ELSE n

\* C23: a Force line moves its axis by the signed delta it carries and the
\* motion is complete when the step ends: the steps were made inside
\* runToPosition(), the axis stands at its old position plus the delta and
\* is not running; the step samples no limit
\* switch and no estop input, executes no other command, emits no frame and
\* leaves the other axes, the homing flags and the needs-homing flags alone.
C23_ForceMoveBlocks ==
    [][\A line \in ForceLines :
          LoopCommand(line) =>
              LET a == CHOOSE k \in Axes : Digits[k + 1] = line[2]
              IN  /\ motor'[a].currentPosition = motor[a].currentPosition + SignedPayload(line)
                  /\ ran' = SignedPayload(line)
                  /\ motor'[a].targetPosition = motor'[a].currentPosition
                  /\ \A b \in Axes \ {a} : motor'[b] = motor[b]
                  /\ homing' = homing
                  /\ needs_homing' = needs_homing
                  /\ hit' = "none" /\ zeroed' = {}
                  /\ estopPin' = estopPin
                  /\ sent' = sent + 1
                  /\ out' = <<>>]_vars

\* a Force move of the track by one step down while the track is homing
C23_Witness ==
    /\ sent = 2 /\ lpc = "cmds" /\ out = <<>>
    /\ motor[1] = [currentPosition |-> 0 - 1, targetPosition |-> 0 - 1]
    /\ homing[1] = 1

(***************************************************************************)
(* Limit hits outside homing, under Spec.                                  *)
(***************************************************************************)

\* the handler of switch ls runs and finds it triggered, the hit is not a
\* reverse-wind one, and the axis is not homing or the switch is the
\* positive-direction one
FaultHit(ls) ==
    /\ CtlStep
    /\ lpc = ls.id
    /\ hit' = ls.id
    /\ ~WrongSide(ls.id)
    /\ homing[ls.axis] # 1 \/ ls.direction = 1

\* C24: a track or nod switch triggered outside a reverse-wind hit, while
\* its axis is not homing or the switch is the positive-direction one,
\* abandons the move (the axis stands still, its former target is gone),
\* leaves the axis one backoff distance from the switch in the direction
\* opposite to the switch's, sets needs-homing of the axis and emits exactly
\* one frame 'L <id> <position>' with the step position held at the hit.
C24_LimitHitOutsideHoming ==
    [][\A ls \in LimitSwitches :
          FaultHit(ls) =>
              /\ motor'[ls.axis].currentPosition = 0 - ls.direction * ls.backoff
              /\ ran' = 0 - ls.direction * ls.backoff
              /\ motor'[ls.axis].targetPosition = motor'[ls.axis].currentPosition
              /\ needs_homing'[ls.axis]
              /\ out' = << <<"L", ls.id, motor[ls.axis].currentPosition>> >>]_vars

\* the track hits its top switch one step into a homing jog, in the cycle
\* the jog started in
C24_Witness ==
    /\ hit = "TTLS" /\ homing[1] = 1 /\ needs_homing[1]
    /\ out = << <<"L", "TTLS", 0 - 1>> >>
    /\ motor[1] = [currentPosition |-> 0 - trackTopLimitSwitch.backoff,
                   targetPosition |-> 0 - trackTopLimitSwitch.backoff]

(***************************************************************************)
(* The stage limit switch, under Spec.                                     *)
(***************************************************************************)

\* the end of a cycle finds the stage switch triggered
StageHit == CtlStep /\ lpc = "stage" /\ hit' = "SOLS"

\* C25: a trigger of the stage switch while the stage is homing backs the
\* stage off by the fixed amount, leaves the stage at step position zero and
\* not running, clears homing and needs-homing of axis 0 and emits 'H 0'; a
\* trigger while the stage is not homing backs nothing off, emits nothing
\* and changes no target, position, rate or flag (the last non-zero track
\* speed is updated as at the end of every cycle).
C25_StageSwitch ==
    [][/\ StageHit /\ homing[0] = 1 =>
             /\ ran' = StageBackoff
             /\ motor'[0].currentPosition = 0
             /\ motor'[0].targetPosition = 0
             /\ homing'[0] = 0
             /\ ~needs_homing'[0]
             /\ HomingCompleteCount(out', 0) = 1
       /\ StageHit /\ homing[0] # 1 =>
             /\ ran' = 0
             /\ out' = <<>>
             /\ AxesUntouched
             /\ zeroed' = {}
             /\ lastNonzeroTrackMotorSpeed' \in {lastNonzeroTrackMotorSpeed, trackMotorSpeed}]_vars

\* the stage switch ends the homing of the stage
C25_Witness ==
    /\ hit = "SOLS" /\ ran = StageBackoff /\ zeroed = {0}
    /\ out = << <<"L", "SOLS">>, <<"H", 0>> >>
    /\ motor[0] = [currentPosition |-> 0, targetPosition |-> 0]
    /\ homing[0] = 0 /\ ~needs_homing[0]
    /\ sent = 1

(***************************************************************************)
(* SpecEstop: the estop input, the estop branch of loop() with its         *)
(* delay(50), and the host's serial timer with poll_serial, in time.  One  *)
(* unit of time is TickMs milliseconds.  The estop input changes at any    *)
(* time.  Outside the estop branch a loop cycle takes no time to speak of: *)
(* time passes only when the controller is at the top of loop() with       *)
(* nothing to read, or inside delay(50).  The receive buffer of the        *)
(* controller holds MaxBuffered lines and loses what arrives when full.    *)
(***************************************************************************)

\* the estop input is released: a release begins
TimedRelease ==
    /\ ReleaseEstop
    /\ wasReleased' = TRUE
    /\ releaseAge' = 0
    /\ unseen' = estop_pressed
    /\ UNCHANGED <<hostVars, linkVars, kinVars, byteVars, manVars, pollDue, delayLeft>>

\* the estop branch of loop(): the 'E' line goes out and delay(50) begins
TimedEstop ==
    /\ delayLeft = 0
    /\ LoopEstop
    /\ tx' = tx \o out'
    /\ delayLeft' = DelayTicks
    /\ wasReleased' = FALSE
    /\ UNCHANGED <<hostVars, rx, kinVars, byteVars, manVars, pollDue, releaseAge, unseen>>

\* a cycle of loop() outside the estop branch begins once delay(50) is over
TimedCommand == delayLeft = 0 /\ SerialCommand

TimedRun == delayLeft = 0 /\ rx = <<>> /\ LoopRunDue(AllDue) /\ HostIdle

\* serial_timer fires: poll_serial
TimedPoll ==
    /\ pollDue = 0
    /\ AtEvent
    /\ PollDecode
    /\ tx' = <<>>
    /\ rx' = IF Len(rx) < MaxBuffered THEN Append(rx, <<"P">>) ELSE rx
    /\ pollDue' = PollTicks
    /\ unseen' = (unseen /\ estop_pressed')
    /\ UNCHANGED <<cancel_sequence_flag, sequence_active_flag, calibrate_button,
                   calibrate_cancel_button, started, clicks, waypoints, captures, ended,
                   cancelled>>
    /\ UNCHANGED <<ctlVars, kinVars, byteVars, call, converted, delayLeft, wasReleased, releaseAge>>

\* the controller has something to do that takes no time
Busy ==
    \/ lpc # "top"
    \/ delayLeft = 0 /\ (estopPin \/ rx # <<>>)

\* one unit of time passes
Tick ==
    /\ pollDue > 0
    /\ ~Busy
    /\ pollDue' = pollDue - 1
    /\ delayLeft' = IF delayLeft > 0 THEN delayLeft - 1 ELSE 0
    /\ releaseAge' = IF ~estopPin /\ releaseAge <= PollTicks THEN releaseAge + 1 ELSE releaseAge
    /\ UNCHANGED <<ctlVars, hostVars, linkVars, kinVars, byteVars, manVars, wasReleased, unseen>>

NextEstop ==
    \/ PressEstop /\ HostIdle
    \/ TimedRelease
    \/ TimedEstop
    \/ TimedCommand
    \/ TimedRun
    \/ QuietRest /\ HostIdle
    \/ TimedPoll
    \/ Tick

SpecEstop == Init /\ [][NextEstop]_vars

\* the step is a poll of the host
PollStep == pollDue = 0 /\ pollDue' = PollTicks

\* the host's flag goes from true to false only when the input was released
\* since the latest 'E' line
ClearsAfterRelease == estop_pressed /\ ~estop_pressed' => wasReleased

\* a poll that finds the input asserted again after a release of at least
\* one poll interval leaves the release observed: the host's flag was false
\* at some poll since the release began
ObservesRelease == PollStep /\ estopPin /\ releaseAge >= PollTicks => ~unseen'

\* C26: while the estop input stays asserted every poll after the first
\* detection drains an 'E' line, so that estop_pressed goes from true to
\* false only after the input was released; and a release that lasts at
\* least one host poll interval is always observed by the host.
C26_EstopTracking == [][ClearsAfterRelease /\ ObservesRelease]_vars

(***************************************************************************)
(* Limit-switch and reverse-wind frames at the host, under SpecPoll.       *)
(***************************************************************************)

\* a frame 'L <switch-id> <position>' or 'W <switch-id>'
FaultFrame(line) == line[1] \in {"L", "W"}

\* C27: every 'L' and every 'W' frame the host reads is decoded as a limit
\* hit or a reverse wind: a poll never reports such a frame as an invalid
\* line.
C27_FaultsDecoded ==
    [][poll_serial =>
          \A i \in DOMAIN tx :
              FaultFrame(tx[i]) => \A j \in DOMAIN reported' : reported'[j] # tx[i]]_vars

(***************************************************************************)
(* Motion of axes that need homing, under Spec.                            *)
(***************************************************************************)

\* the Move and Jog lines among the lines of Spec
MotionLines == {line \in Lines : line[1] \in {"M", "J"}}

\* the decimal number the characters from the i-th on spell
RECURSIVE Spelled(_, _)
Spelled(line, i) ==
    IF i > Len(line) THEN 0
    ELSE (CHOOSE k \in 0..9 : Digits[k + 1] = line[i]) * 10 ^ (Len(line) - i)
         + Spelled(line, i + 1)

\* the target a Move or Jog line asks for
AskedTarget(line, m) ==
    LET n == IF line[3] = "-" THEN 0 - Spelled(line, 4) ELSE Spelled(line, 4)
    IN  IF line[1] = "M" THEN n ELSE m.currentPosition + n

\* C28: a Move or Jog line sets the target of its axis whether or not the
\* axis needs homing, changes nothing else of the axes and emits no frame;
\* and no step of the controller emits an 'N' frame.
C28_UnhomedMotionPermitted ==
    [][/\ \A line \in MotionLines :
             LoopCommand(line) =>
                 LET a == CHOOSE k \in Axes : Digits[k + 1] = line[2]
                 IN  /\ motor' = [motor EXCEPT ![a].targetPosition = AskedTarget(line, motor[a])]
                     /\ homing' = homing
                     /\ needs_homing' = needs_homing
                     /\ out' = <<>>
       /\ \A i \in DOMAIN out' : out'[i][1] # "N"]_vars

\* the track, which needs homing, was given a target and is on its way
C28_Witness ==
    /\ needs_homing[1] /\ homing[1] = 0
    /\ motor[1].targetPosition = trackTopLimitSwitch.backoff + 1
    /\ motor[1].currentPosition = 1

(***************************************************************************)
(* SpecMirror: the sequencer, the polling and the controller of SpecSweep, *)
(* with the serial timer firing again and again and the controller         *)
(* cycling.                                                                *)
(***************************************************************************)
SpecMirror ==
    /\ Init
    /\ [][NextSweep]_vars
    /\ WF_vars(poll_serial)
    /\ WF_vars(SerialCommand)
    /\ WF_vars(LoopRunDue(AllDue) /\ HostIdle)
    /\ WF_vars(QuietRest /\ HostIdle)

\* C29: whenever the controller's needs-homing flag is true for some axis,
\* the host's needs_homing_flag eventually becomes true.
C29_HostLearnsNeedsHoming ==
    (\E a \in Axes : needs_homing[a]) ~> needs_homing_flag

(***************************************************************************)
(* The cancellation flag between sweeps, under SpecSweep.                  *)
(***************************************************************************)

\* C30: whenever no sweep is active (sequence_active_flag is false and the
\* START button is enabled) cancel_sequence_flag is false.
C30_CancelFlagCleared ==
    ~sequence_active_flag /\ calibrate_button => ~cancel_sequence_flag

(***************************************************************************)
(* Captures of a cancelled sweep, under SpecSweep.                         *)
(***************************************************************************)

\* C31: a sweep that was in progress when cancel_sequence ran triggers no
\* further capture: the waypoint it was waiting at is not captured when its
\* wait returns.
C31_NoCaptureAfterCancel ==
    [][\A s \in cancelled : captures'[s] = captures[s]]_vars

(***************************************************************************)
(* The end of a sweep, under SpecSweep.                                    *)
(***************************************************************************)

\* end_sequence has taken effect
SequenceEnded == ~sequence_active_flag /\ calibrate_button /\ manual_controls

\* C32: a sweep that was started ends with end_sequence called for it, by its
\* own completion or by the cancel_sequence that interrupted it, and with
\* sequence_active_flag false, START enabled and the manual controls enabled.
C32_SweepEndsSequence ==
    [][\A s \in Sweeps :
          Returned(s)' /\ ~Returned(s) =>
              /\ s \in ended' \cup cancelled'
              /\ SequenceEnded']_vars

(***************************************************************************)
(* One sweep at a time, under SpecSweep.                                   *)
(***************************************************************************)

\* C33: a sweep is started only when no earlier sweep is suspended in
\* wait_for_all_motors_stopped, and a sweep writes the Move lines of no
\* further waypoint once a later sweep was started.
C33_OneSweepAtATime ==
    [][/\ started' # started => InProgress = {}
       /\ \A s \in Sweeps : s < started => waypoints'[s] = waypoints[s]]_vars

(***************************************************************************)
(* The all_motors_stopped event, under SpecSweep.                          *)
(***************************************************************************)

\* poll_serial runs: it is the one writer of a lone position request
Polls == rx' = Append(rx, <<"P">>)

\* the fields poll_serial works on when it comes to line i of the lines that
\* wait, with no event emitted for that line yet
BeforeLine(i) == [PollLines(SubSeq(tx, 1, i - 1), Polling) EXCEPT !.emitted = FALSE]

\* the frame reports running = 0 for all three axes
ReportsAllStopped(line) == \A a \in Axes : ReportedRunning(line, a) = 0

\* the frame reports every axis stopped and the display showed one running
LastAxisStops(md, line) == ReportsAllStopped(line) /\ AnyRunning(md)

\* C34: poll_serial emits all_motors_stopped while it processes a Position
\* frame only if that frame reports running = 0 for all three axes, and it
\* emits it for every frame in which the last running axis is first reported
\* stopped.
C34_StoppedEventWhenAllStopped ==
    [][Polls =>
          \A i \in DOMAIN tx :
              tx[i][1] = "P" =>
                  LET before == BeforeLine(i)
                      emitted == PollLine(tx[i], before).emitted
                  IN  /\ emitted => ReportsAllStopped(tx[i])
                      /\ LastAxisStops(before.md, tx[i]) => emitted]_vars

(***************************************************************************)
(* The homing flags, under Spec.                                           *)
(***************************************************************************)

\* the positive-direction switches of axis a
PositiveSwitches(a) == SwitchIds(a) \ {HomingSwitch(a)}

\* the lines that start another motion of their axis
ReplacingLines == MotionLines \cup ForceLines

\* C35: whenever homing[a] is 1 axis a has steps to go in the negative
\* direction; a hit of a positive-direction switch of a, a cycle that finds
\* the estop input asserted and a later Move, Jog or ForceMove line on a
\* leave homing[a] at 0.
C35_HomingOnlyWhileApproaching ==
    [][/\ \A a \in Axes : homing'[a] = 1 => StepsToGo(motor'[a]) < 0
       /\ \A a \in Axes : hit' \in PositiveSwitches(a) => homing'[a] = 0
       /\ EstopStep => \A a \in Axes : homing'[a] = 0
       /\ \A line \in ReplacingLines :
             LoopCommand(line) =>
                 LET a == CHOOSE k \in Axes : Digits[k + 1] = line[2]
                 IN  homing'[a] = 0]_vars

(***************************************************************************)
(* SpecHeld: the controller with its receive buffer as in SpecDrain, and a *)
(* host that writes its lines only while the estop input is asserted and   *)
(* the cycles of loop() end in the estop branch.                           *)
(***************************************************************************)
\* the motion lines of Spec and the position request
HeldLines == {line \in Lines : line[1] \in {"M", "J", "H", "F", "P"}}

\* a complete line reaches the receive buffer while the estop input is
\* asserted and loop() takes its estop branch: loop() returns before it
\* reads, the line stays in the buffer
BufferedInEstop(line) == estopPin /\ lpc = "top" /\ Buffered(line)

NextHeld ==
    \/ \E line \in HeldLines : BufferedInEstop(line)
    \/ DrainCommand
    \/ LoopRunDrained
    \/ QuietRest /\ HostIdle
    \/ PressEstop /\ HostIdle
    \/ ReleaseEstop /\ HostIdle
    \/ LoopEstop /\ HostIdle

SpecHeld == Init /\ [][NextHeld]_vars

\* C36: a Move, Jog, Home or ForceMove line that reached the controller
\* while the estop input was asserted is executed neither during the estop
\* nor after its release, and no axis moves or gets a target because of it.
C36_NoMotionFromEstopLines ==
    [][/\ DrainCommand => Head(rx)[1] \notin {"M", "J", "H", "F"}
       /\ \A a \in Axes : StepsToGo(motor'[a]) = 0 /\ ran' = 0]_vars

(***************************************************************************)
(* SpecEstopSweep: the estop input, the controller and the serial timer of *)
(* SpecEstop, with the START button and the sweeps of SpecSweep on the     *)
(* host.                                                                   *)
(***************************************************************************)
NextEstopSweep ==
    \/ NextEstop
    \/ start_sequence
    \/ LoopReturns

SpecEstopSweep == Init /\ [][NextEstopSweep]_vars

\* C37: in every state with sequence_active_flag true the manual controls
\* are disabled, also after an emergency stop was pressed and released
\* during the sweep.
C37_ManualControlsOffInSweep ==
    sequence_active_flag => ~manual_controls

(***************************************************************************)
(* SpecBytes: the read loop of loop() byte by byte.  The bytes are those   *)
(* of position requests, a digit and the newline, in any order.  A store   *)
(* past the end of incomingBytes[] is not defined: in the model it leaves  *)
(* the index alone or overwrites it with the byte stored.                  *)
(***************************************************************************)
\* sizeof(incomingBytes)
BufferSize == MAX_DIGITS + 3

\* the longest run of bytes without a newline the model follows
MaxLineBytes == 15

ReceivedBytes == {"P", "1", "\n"}

\* byteCounter += 1 after a store at index byteCounter
NextIndex(b) ==
    IF byteCounter < BufferSize THEN {byteCounter + 1} ELSE {byteCounter + 1, Ord(b) + 1}

\* one pass of the while loop: a byte is read, stored and counted; a newline
\* has the line executed, the index reset and the array cleared
ReceiveByte(b) ==
    /\ byteCounter < MaxLineBytes
    /\ overrun' = (overrun \/ byteCounter >= BufferSize)
    /\ IF b = "\n"
       THEN /\ Arrives(incoming)
            /\ LoopCommand(incoming)
            /\ byteCounter' = 0
            /\ incoming' = <<>>
       ELSE /\ \/ lpc = "top" /\ ~estopPin
               \/ lpc = "cmds"
            /\ incoming' = IF byteCounter < BufferSize THEN Append(incoming, b) ELSE incoming
            /\ byteCounter' \in NextIndex(b)
            /\ lpc' = "cmds"
            /\ out' = <<>>
            /\ hit' = "none"
            /\ zeroed' = {}
            /\ ran' = 0
            /\ UNCHANGED <<motor, homing, needs_homing, lastNonzeroTrackMotorSpeed,
                           trackMotorSpeed, estopPin, sent, maxSpeed, acceleration>>
    /\ UNCHANGED <<hostVars, linkVars, kinVars, manVars, timeVars>>

NextBytes ==
    \/ \E b \in ReceivedBytes : ReceiveByte(b)
    \/ LoopRunDue(AllDue) /\ HostIdle
    \/ QuietRest /\ HostIdle

SpecBytes == Init /\ [][NextBytes]_vars

\* C38: whatever bytes are received, every byte is stored at an index from
\* 0 to MAX_DIGITS + 3, and after every newline byteCounter is 0 and the
\* array is cleared.
C38_ReceiveBufferBound ==
    [][\A b \in ReceivedBytes :
          ReceiveByte(b) =>
              /\ 0 <= byteCounter /\ byteCounter <= MAX_DIGITS + 3
              /\ b = "\n" => byteCounter' = 0 /\ incoming' = <<>>]_vars

(***************************************************************************)
(* SpecDecode: move_to_step_position writes a Move line for a step count   *)
(* of one to ten digits and the controller reads it.                       *)
(***************************************************************************)
\* step counts of one to ten decimal digits
DecodeSteps ==
    {Wide(n) : n \in {0, 1, 0 - 1, 9, 10, 0 - 10, 12345, 0 - 12345, 999999, 1000000, 0 - 1000000,
                      TRACK_MAX_STEPS, 999999999, 0 - 999999999, 1000000000,
                      LongMax - 48}}
    \cup {[neg |-> s, hi |-> h, lo |-> l] :
             s \in BOOLEAN, h \in {(LongMax \div Base), 3000, 9999},
             l \in {(LongMax % Base) + 1, 999999}}

\* move_to_step_position(axis, steps)
EncodeMove(axis, steps) ==
    /\ sent < MaxCmds
    /\ Transmit("move_to_step_position", <<axis, steps>>,
                <<move_to_step_position_wide(axis, steps)>>)

NextDecode ==
    \/ \E axis \in {0, 1}, steps \in DecodeSteps : EncodeMove(axis, steps)
    \/ SerialCommand

SpecDecode == Init /\ [][NextDecode]_vars

\* the controller reads a Move line
DecodeStep == SerialCommand /\ Head(rx)[1] = "M"

\* the signed integer the sign and the digits of a line denote
Denoted(line) ==
    LET digits == SubSeq(line, 4, Len(line))
        n == Len(digits)
        hi == IF n > 6 THEN Spelled(SubSeq(digits, 1, n - 6), 1) ELSE 0
        lo == IF n > 6 THEN Spelled(SubSeq(digits, n - 5, n), 1) ELSE Spelled(digits, 1)
    IN  [neg |-> line[3] = "-" /\ hi + lo > 0, hi |-> hi, lo |-> lo]

\* C39: for a Move line with a sign and one to ten digits the arithmetic of
\* the controller stays in the range of its 32-bit long, the target it sets
\* is the signed integer the digits denote, and that integer is the step
\* count move_to_step_position sent.
C39_PayloadDecoding ==
    [][DecodeStep =>
          LET line == Head(rx)
              a == AxisOf(line)
          IN  /\ Len(line) - 3 \in 1..MAX_DIGITS
              /\ ~ValueOverflows(line)
              /\ Wide(motor'[a].targetPosition) = Denoted(line)
              /\ Denoted(line) = ClampWide(call.asked[1], call.asked[2])]_vars

====
